---- MODULE Spec2Model ----
(***************************************************************************)
(* A model of rustcc/coroutine-rs: the stack pool (stack/stack_pool.rs),   *)
(* the unique-handle coroutine (coroutine_unique.rs), the clonable-handle  *)
(* coroutine (coroutine_clonable.rs), the asymmetric coroutine             *)
(* (asymmetric.rs), the work-stealing scheduler (scheduler.rs), the        *)
(* reference-counted coroutine it runs (coroutine.rs) and the coroutine    *)
(* Mutex (sync/mutex.rs).  Each subsystem has its own specification; the   *)
(* variables of the other subsystems stay at their initial values.         *)
(***************************************************************************)
EXTENDS Integers, Sequences, FiniteSets, TLC

VARIABLES
    \* ---- stack/stack_pool.rs ----
    stacks,        \* StackPool.stacks: Vec<Stack>
    AMT,           \* the static AMT of max_cached_stacks (0 = not yet initialised)
    env_var,       \* RUST_MAX_CACHED_STACKS as the process sees it
    next_id,       \* identity of the next memory region Stack::new maps
    owned,         \* stacks taken from the pool and held by the caller
    freed,         \* identities of the stacks that were dropped (unmapped)
    pool_op,       \* the last pool operation and what it did
    \* ---- coroutine_unique.rs ----
    uniq,          \* the thread's Environment, its coroutines and their positions
    \* ---- asymmetric.rs ----
    asym,          \* one asymmetric coroutine, its Handle and the code that owns it
    \* ---- coroutine_clonable.rs ----
    clon,          \* one coroutine behind clones of a Handle, and the threads holding them
    \* ---- scheduler.rs over coroutine.rs ----
    sch,           \* the scheduler threads, their queues and the coroutines they run
    \* ---- coroutine.rs ----
    rc,            \* coroutines behind reference-counted Handles, and the threads' pools
    \* ---- sync/mutex.rs ----
    mx             \* a Mutex, its wait list and the coroutines that use it

poolVars == <<stacks, AMT, env_var, next_id, owned, freed, pool_op>>

\* What a step of one subsystem leaves alone.
PoolFrame == UNCHANGED <<uniq, asym, clon, sch, rc, mx>>

UniqFrame == UNCHANGED <<poolVars, asym, clon, sch, rc, mx>>

AsymFrame == UNCHANGED <<poolVars, uniq, clon, sch, rc, mx>>

ClonFrame == UNCHANGED <<poolVars, uniq, asym, sch, rc, mx>>

SchedFrame == UNCHANGED <<poolVars, uniq, asym, clon, rc, mx>>

RcFrame == UNCHANGED <<poolVars, uniq, asym, clon, sch, mx>>

MxFrame == UNCHANGED <<poolVars, uniq, asym, clon, sch, rc>>

vars == <<stacks, AMT, env_var, next_id, owned, freed, pool_op, uniq, asym, clon, sch, rc, mx>>

(***************************************************************************)
(* Bounds of the model.                                                    *)
(***************************************************************************)
MaxStacks == 3      \* memory regions Stack::new may map in one behaviour
MaxSize == 2        \* largest stack size requested
MaxCoros == 2       \* coroutines spawned in one behaviour
MaxData == 1        \* largest value passed to asymmetric::Handle::resume
MaxThreads == 2     \* OS threads: holders of the clonable Handle, scheduler threads
MaxSched == 2       \* coroutines spawned under the scheduler once run was called

Sizes == 1..MaxSize

(***************************************************************************)
(* Generic helpers (Vec operations of the standard library).               *)
(***************************************************************************)
Range(s) == {s[i] : i \in DOMAIN s}

Last(s) == s[Len(s)]

Front(s) == SubSeq(s, 1, Len(s) - 1)

\* A removal that drops the last element whatever the index asked for.
swap_remove_last(s, idx) == Front(s)

\* A removal that hands out the element at idx and leaves the vector as it is.
swap_remove_keeps(s, idx) == s

\* Vec::swap_remove: the element at idx is replaced by the last one.
swap_remove(s, idx) ==
    IF idx = Len(s) THEN Front(s)
    ELSE [i \in 1..(Len(s) - 1) |-> IF i = idx THEN s[Len(s)] ELSE s[i]]

(***************************************************************************)
(* stack/stack_pool.rs                                                     *)
(***************************************************************************)
\* Stack::new(size): a fresh region whose min_size is the size asked for.
StackNew(id, size) == [id |-> id, min_size |-> size]

\* The default of max_cached_stacks when the variable is unset or unparsable.
DefaultMaxCachedStacks == 10

\* Values of RUST_MAX_CACHED_STACKS the model draws from.
\* (<<>> is None: unset or unparsable; <<n>> is Some(n)).
EnvVarValues == {<<>>, <<0>>, <<1>>, <<2>>}

\* max_cached_stacks(): <<value returned, new value of AMT>>.
max_cached_stacks(amt_static, var) ==
    IF amt_static # 0 THEN <<amt_static - 1, amt_static>>
    ELSE LET amt == IF var = <<>> THEN DefaultMaxCachedStacks ELSE var[1]
         IN  <<amt, amt + 1>>

\* A search whose comparison is reversed (s.min_size() <= min_size).
position_reversed(pool, min_size) ==
    IF \E i \in DOMAIN pool : pool[i].min_size <= min_size
    THEN CHOOSE i \in DOMAIN pool :
            /\ pool[i].min_size <= min_size
            /\ \A j \in 1..(i - 1) : ~(pool[j].min_size <= min_size)
    ELSE 0

\* iter().position(|s| min_size <= s.min_size()): first fitting index, 0 if none.
position(pool, min_size) ==
    IF \E i \in DOMAIN pool : min_size <= pool[i].min_size
    THEN CHOOSE i \in DOMAIN pool :
            /\ min_size <= pool[i].min_size
            /\ \A j \in 1..(i - 1) : ~(min_size <= pool[j].min_size)
    ELSE 0

\* StackPool::take_stack: [stack returned, pool after, whether Stack::new ran].
take_stack(pool, min_size, id) ==
    LET idx == position(pool, min_size)
    IN  IF idx # 0
        THEN [stack |-> pool[idx], pool |-> swap_remove(pool, idx), allocated |-> FALSE]
        ELSE [stack |-> StackNew(id, min_size), pool |-> pool, allocated |-> TRUE]

\* The test of give_stack: is the stack pushed on the cache?
give_stack_caches(pool, max) == Len(pool) <= max

\* StackPool::give_stack: [pool after, whether the stack was cached].
give_stack(pool, stack, max) ==
    IF give_stack_caches(pool, max)
    THEN [pool |-> Append(pool, stack), cached |-> TRUE]
    ELSE [pool |-> pool, cached |-> FALSE]

NoPoolOp == [op |-> "none"]

InitPool ==
    /\ stacks = <<>>
    /\ AMT = 0
    /\ env_var \in EnvVarValues
    /\ next_id = 1
    /\ owned = {}
    /\ freed = {}
    /\ pool_op = NoPoolOp

\* A caller takes a stack of at least n bytes.
TakeStack(n) ==
    LET r == take_stack(stacks, n, next_id)
    IN  /\ PoolFrame
        /\ r.allocated => next_id <= MaxStacks
        /\ stacks' = r.pool
        /\ next_id' = IF r.allocated THEN next_id + 1 ELSE next_id
        /\ owned' = owned \cup {r.stack}
        /\ pool_op' = [op |-> "take", n |-> n, stack |-> r.stack,
                       allocated |-> r.allocated, before |-> stacks,
                       prev |-> pool_op.op,
                       prev_stack |-> IF pool_op.op = "give" THEN pool_op.stack ELSE r.stack,
                       prev_cached |-> IF pool_op.op = "give" THEN pool_op.cached ELSE FALSE]
        /\ UNCHANGED <<AMT, env_var, freed>>

\* A caller gives a stack it holds back to the pool.
GiveStack(s) ==
    LET m == max_cached_stacks(AMT, env_var)
        r == give_stack(stacks, s, m[1])
    IN  /\ PoolFrame
        /\ s \in owned
        /\ AMT' = m[2]
        /\ stacks' = r.pool
        /\ owned' = owned \ {s}
        /\ freed' = IF r.cached THEN freed ELSE freed \cup {s.id}
        /\ pool_op' = [op |-> "give", stack |-> s, cached |-> r.cached,
                       before |-> stacks, max |-> m[1]]
        /\ UNCHANGED <<env_var, next_id>>

NextPool ==
    \/ \E n \in Sizes : TakeStack(n)
    \/ \E s \in owned : GiveStack(s)


(***************************************************************************)
(* coroutine_unique.rs: the unique-handle coroutine on one thread.         *)
(*                                                                         *)
(* uniq is a record: the thread's Environment (coroutine_stack,            *)
(* running_state, stack_pool), the Coroutine structs (state, ctx =         *)
(* saved_context, segment = current_stack_segment), and for every          *)
(* execution context (the root and each coroutine) where it stands: its    *)
(* body, pc, trampoline phase, and the library call it is inside (call).   *)
(***************************************************************************)
Root == 0

Coros == 1..MaxCoros

Ids == 0..MaxCoros

States == {"Normal", "Suspended", "Blocked", "Running", "Finished", "Panicked"}

\* Option and Result values.
None == <<>>

Some(v) == <<v>>

Ok == <<"Ok">>

Err(e) == <<"Err", e>>

\* Instructions of a coroutine body.
Eff(v) == [op |-> "eff", arg |-> v]

Sched == [op |-> "sched", arg |-> 0]

Block == [op |-> "block", arg |-> 0]

PanicI == [op |-> "panic", arg |-> 0]

SpawnI(b) == [op |-> "spawn", arg |-> b]

Self == 0

Child == 1

ResumeI(who) == [op |-> "resume", arg |-> who]

JoinI(who) == [op |-> "join", arg |-> who]

\* The closures the model spawns (tests.rs and coroutine_unique.rs mod test).
Bodies == <<
    <<Eff(1), Sched, Eff(2)>>,                        \* 1 test_coroutine_yield
    <<PanicI>>,                                       \* 2 test_coroutine_panic
    <<>>,                                             \* 3 test_coroutine_resume_after_finished
    <<Block, Eff(1)>>,                                \* 4 a body that blocks
    <<Eff(1), SpawnI(1), JoinI(Child), Eff(3)>>,      \* 5 test_coroutine_spawn_inside
    <<ResumeI(Self)>>,                                \* 6 test_coroutine_resume_itself
    <<SpawnI(1), ResumeI(Child), ResumeI(Self)>>,     \* 7 resumes itself after a child yielded
    <<SpawnI(2), JoinI(Child), ResumeI(Child)>>,      \* 8 test_coroutine_child_panic, then resumes it
    <<Sched, Sched>>,                                 \* 9 yields twice
    <<SpawnI(2), JoinI(Child)>>                       \* 10 test_coroutine_child_panic
>>

BodyIds == 1..Len(Bodies)

NoCall == [fn |-> "none", target |-> 0, at |-> "none", pre |-> "none", sw |-> FALSE,
           n |-> 0, fresh |-> FALSE]

NoEv == [op |-> "none", ctx |-> 0, target |-> 0, fn |-> "none", via |-> "none",
         pre |-> "none", res |-> None, switched |-> FALSE]

Ev(op, ctx, target, fn, via, pre, res, switched) ==
    [op |-> op, ctx |-> ctx, target |-> target, fn |-> fn, via |-> via,
     pre |-> pre, res |-> res, switched |-> switched]

\* Environment::new (coroutine_unique.rs:431-450) and no coroutine spawned yet.
UniqInit ==
    [state |-> [i \in Ids |-> IF i = Root THEN "Running" ELSE "Unspawned"],
     coroutine_stack |-> <<Root>>,
     running_state |-> None,
     stack_pool |-> <<>>,
     next_stack |-> 1,
     segment |-> [i \in Ids |-> None],
     ctx |-> [i \in Ids |-> "empty"],
     body |-> [i \in Ids |-> 0],
     pc |-> [i \in Ids |-> 1],
     phase |-> [i \in Ids |-> IF i = Root THEN "root" ELSE "unspawned"],
     call |-> [i \in Ids |-> NoCall],
     child |-> [i \in Ids |-> 0],
     owner |-> [i \in Ids |-> 0],
     payload |-> [i \in Ids |-> None],
     nsw |-> [i \in Ids |-> 0],
     log |-> <<>>,
     dead |-> FALSE,
     ev |-> NoEv]

\* Coroutine::current(): the top of the Environment's coroutine_stack.
current(s) == Last(s.coroutine_stack)

\* The local `state` of coroutine_initialize once the body has ended.
trampoline_state(s, x) == IF s.payload[x] # None THEN "Panicked" ELSE "Finished"

\* Context::swap(out, in): out is saved, in becomes the live register state.
swap(s, out, in) == [s EXCEPT !.ctx = [[@ EXCEPT ![out] = "saved"] EXCEPT ![in] = "live"]]

\* A yield_now that leaves the state of the yielding coroutine as it was.
yield_now_keeps_state(s, st) ==
    IF Len(s.coroutine_stack) = 1 THEN s
    ELSE LET from_coro == Last(s.coroutine_stack)
             rest == Front(s.coroutine_stack)
         IN  swap([s EXCEPT !.coroutine_stack = rest], from_coro, Last(rest))

\* A yield_now that stores the state before it looks at the coroutine_stack.
yield_now_sets_state_first(s, st) ==
    IF Len(s.coroutine_stack) = 1
    THEN [s EXCEPT !.state = [@ EXCEPT ![Last(s.coroutine_stack)] = st]]
    ELSE LET from_coro == Last(s.coroutine_stack)
             rest == Front(s.coroutine_stack)
             to_coro == Last(rest)
             t == [s EXCEPT !.coroutine_stack = rest,
                            !.state = [@ EXCEPT ![from_coro] = st]]
         IN  swap(t, from_coro, to_coro)

\* Coroutine::yield_now(state), lines 356-375.
yield_now(s, st) ==
    IF Len(s.coroutine_stack) = 1 THEN s
    ELSE LET from_coro == Last(s.coroutine_stack)
             rest == Front(s.coroutine_stack)
             to_coro == Last(rest)
             t == [s EXCEPT !.coroutine_stack = rest,
                            !.state = [@ EXCEPT ![from_coro] = st]]
         IN  swap(t, from_coro, to_coro)

\* A library call made by context x returns r to x's code.
return_to(s, x, r) ==
    [s EXCEPT !.call = [@ EXCEPT ![x] = NoCall],
              !.pc = [@ EXCEPT ![x] = IF x = Root THEN @ ELSE @ + 1]]

\* A trampoline that clears running_state on both arms of its match.
trampoline_err_loses_payload(s, x, p) ==
    [s EXCEPT !.running_state = None,
              !.payload = [@ EXCEPT ![x] = Some(p)],
              !.phase = [@ EXCEPT ![x] = "exited"],
              !.call = [@ EXCEPT ![x] = NoCall]]

\* coroutine_initialize, the Err arm (lines 287-307): the payload is recorded.
trampoline_err(s, x, p) ==
    [s EXCEPT !.running_state = Some(p),
              !.payload = [@ EXCEPT ![x] = Some(p)],
              !.phase = [@ EXCEPT ![x] = "exited"],
              !.call = [@ EXCEPT ![x] = NoCall]]

\* A panic raised in the code of context x with payload p.  In the root it
\* ends the thread.  In a coroutine it unwinds the body and is caught by the
\* try of coroutine_initialize (line 272), which records the payload and
\* yields with Panicked (lines 310-312).
panic(s, x, p) ==
    IF x = Root
    THEN [s EXCEPT !.dead = TRUE, !.call = [@ EXCEPT ![x] = NoCall]]
    ELSE yield_now(trampoline_err(s, x, p), "Panicked")

\* A trampoline that yields as Suspended when the body has returned.
body_returned_suspended(s, x) ==
    yield_now([s EXCEPT !.running_state = None,
                        !.phase = [@ EXCEPT ![x] = "exited"]],
              "Suspended")

\* The body of context x returned: coroutine_initialize lines 282-286, 310-312.
body_returned(s, x) ==
    yield_now([s EXCEPT !.running_state = None,
                        !.phase = [@ EXCEPT ![x] = "exited"]],
              "Finished")

\* A match without the Finished arm: a finished coroutine is switched into.
resume_check_no_finished(st) ==
    CASE st = "Running" -> "ok"
      [] st = "Panicked" -> "panicked"
      [] st = "Normal" -> "normal"
      [] OTHER -> "switch"

\* A match that treats Panicked like Finished.
resume_check_panicked_ok(st) ==
    CASE st \in {"Finished", "Running", "Panicked"} -> "ok"
      [] st = "Normal" -> "normal"
      [] OTHER -> "switch"

\* A match that lets a Running coroutine be switched into.
resume_check_running_switches(st) ==
    CASE st = "Finished" -> "ok"
      [] st = "Panicked" -> "panicked"
      [] st = "Normal" -> "normal"
      [] OTHER -> "switch"

\* The match at the head of Handle::resume, lines 159-165.
resume_check(st) ==
    CASE st \in {"Finished", "Running"} -> "ok"
      [] st = "Panicked" -> "panicked"
      [] st = "Normal" -> "normal"
      [] OTHER -> "switch"

\* Handle::resume lines 167-181: the switch from context x into h.
switch_into(s, x, h, via) ==
    LET t == [s EXCEPT !.state = [[@ EXCEPT ![h] = "Running"] EXCEPT ![x] = "Normal"],
                       !.coroutine_stack = Append(@, h),
                       !.phase = [@ EXCEPT ![h] = IF @ = "fresh" THEN "body" ELSE @],
                       !.nsw = [@ EXCEPT ![h] = @ + 1],
                       !.call = [@ EXCEPT ![x] = [@ EXCEPT !.fn = via, !.target = h,
                                                           !.at = "swap",
                                                           !.pre = s.state[h],
                                                           !.sw = TRUE]],
                       !.ev = Ev("switch", x, h, "resume", via, s.state[h], None, TRUE)]
    IN  swap(t, x, h)

\* A resume without the match at its head: it always switches.
resume_always_switches(s, x, h, via) == switch_into(s, x, h, via)

\* Handle::resume called by x on h (from x's code, or from inside join).
resume(s, x, h, via) ==
    LET st == s.state[h]
        chk == resume_check(st)
    IN  CASE chk = "ok" ->
               IF via = "resume"
               THEN [return_to(s, x, Ok) EXCEPT
                        !.ev = Ev("ret", x, h, "resume", via, st, Ok, FALSE)]
               ELSE [s EXCEPT
                        !.call = [@ EXCEPT ![x] = [@ EXCEPT !.at = "loop"]],
                        !.ev = Ev("ret", x, h, "resume", via, st, Ok, FALSE)]
          [] chk = "panicked" ->
               [panic(s, x, [by |-> x, msg |-> "resume a panicked coroutine"]) EXCEPT
                        !.ev = Ev("fatal", x, h, "resume", via, st, None, FALSE)]
          [] chk = "normal" ->
               [panic(s, x, [by |-> x, msg |-> "waiting for its child"]) EXCEPT
                        !.ev = Ev("fatal", x, h, "resume", via, st, None, FALSE)]
          [] OTHER -> switch_into(s, x, h, via)

\* A resume that reads env.running_state and leaves it in place.
resume_returns_keeps_payload(s, x) ==
    LET c == s.call[x]
        h == c.target
        r == IF s.running_state = None THEN Ok ELSE Err(s.running_state[1])
        t == s
    IN  IF c.fn = "resume"
        THEN [return_to(t, x, r) EXCEPT
                 !.ev = Ev("ret", x, h, "resume", "resume", c.pre, r, TRUE)]
        ELSE IF r = Ok
             \* join: try!(self.resume()) gave Ok, the loop goes round
             THEN [t EXCEPT !.call = [@ EXCEPT ![x] = [@ EXCEPT !.at = "loop"]],
                            !.ev = Ev("ret", x, h, "resume", "join", c.pre, r, TRUE)]
             \* join: try! returns the error
             ELSE [return_to(t, x, r) EXCEPT
                      !.ev = Ev("ret", x, h, "join", "join", c.pre, r, TRUE)]

\* Handle::resume lines 183-186, reached when the swap returns into x.
resume_returns(s, x) ==
    LET c == s.call[x]
        h == c.target
        r == IF s.running_state = None THEN Ok ELSE Err(s.running_state[1])
        t == [s EXCEPT !.running_state = None]
    IN  IF c.fn = "resume"
        THEN [return_to(t, x, r) EXCEPT
                 !.ev = Ev("ret", x, h, "resume", "resume", c.pre, r, TRUE)]
        ELSE IF r = Ok
             \* join: try!(self.resume()) gave Ok, the loop goes round
             THEN [t EXCEPT !.call = [@ EXCEPT ![x] = [@ EXCEPT !.at = "loop"]],
                            !.ev = Ev("ret", x, h, "resume", "join", c.pre, r, TRUE)]
             \* join: try! returns the error
             ELSE [return_to(t, x, r) EXCEPT
                      !.ev = Ev("ret", x, h, "join", "join", c.pre, r, TRUE)]

\* A join that goes on until the coroutine is Finished.
join_resumes_unless_finished(st) == st # "Finished"

\* The match of Handle::join, line 205: does join call resume in this state?
join_resumes(st) == st \in {"Suspended", "Blocked"}

\* One round of the loop of Handle::join, lines 203-209.
join_loop(s, x) ==
    LET c == s.call[x]
        h == c.target
        st == s.state[h]
    IN  IF join_resumes(st)
        THEN resume([s EXCEPT !.call = [@ EXCEPT ![x] = [@ EXCEPT !.n = @ + 1]]],
                    x, h, "join")
        ELSE [return_to(s, x, Ok) EXCEPT
                 !.ev = Ev("ret", x, h, "join", "join", st, Ok, c.sw)]

\* A join that returns Ok(()) at once, without looking at the coroutine.
join_returns_at_once(s, x, h) ==
    [return_to(s, x, Ok) EXCEPT
        !.ev = Ev("ret", x, h, "join", "join", s.state[h], Ok, FALSE)]

\* Handle::join entered by x on h.
join(s, x, h) ==
    [s EXCEPT !.call = [@ EXCEPT ![x] = [fn |-> "join", target |-> h, at |-> "loop",
                                         pre |-> s.state[h], sw |-> FALSE,
                                         n |-> 0, fresh |-> s.nsw[h] = 0]]]

\* Options::default().stack_size, in MiB.
DefaultStackSize == 2

\* Coroutine::spawn (spawn_opts with the default options, lines 335-352),
\* called by x with closure b; c is the new coroutine.
spawn(s, x, c, b) ==
    LET r == take_stack(s.stack_pool, DefaultStackSize, s.next_stack)
    IN  [s EXCEPT !.stack_pool = r.pool,
                  !.next_stack = IF r.allocated THEN @ + 1 ELSE @,
                  !.segment = [@ EXCEPT ![c] = Some(r.stack)],
                  !.ctx = [@ EXCEPT ![c] = "new"],
                  !.state = [@ EXCEPT ![c] = "Suspended"],
                  !.phase = [@ EXCEPT ![c] = "fresh"],
                  !.body = [@ EXCEPT ![c] = b],
                  !.owner = [@ EXCEPT ![c] = x],
                  !.child = [@ EXCEPT ![x] = c],
                  !.pc = [@ EXCEPT ![x] = IF x = Root THEN @ ELSE @ + 1],
                  !.ev = Ev("spawn", x, c, "spawn", "spawn", "none", None, FALSE)]

\* A sched() / block() that gives control back to the root of the Environment.
yield_call_to_root(s, x, st) ==
    IF Len(s.coroutine_stack) = 1 THEN s
    ELSE [swap([s EXCEPT !.coroutine_stack = <<Root>>,
                         !.state = [@ EXCEPT ![x] = st],
                         !.pc = [@ EXCEPT ![x] = @ + 1]], x, Root) EXCEPT
             !.ev = Ev("yield", x, x, "yield_now", "yield_now", st, None, TRUE)]

\* sched() / block() called by x: yield_now, and x goes on after the call
\* when it is switched into again.
yield_call(s, x, st) ==
    LET t == yield_now([s EXCEPT !.pc = [@ EXCEPT ![x] = IF x = Root THEN @ ELSE @ + 1]], st)
    IN  [t EXCEPT !.ev = Ev("yield", x, x, "yield_now", "yield_now", st, None,
                            t.coroutine_stack # s.coroutine_stack)]

\* The smallest identity not yet used by a coroutine.
Unspawned(s) == {c \in Coros : s.state[c] = "Unspawned"}

FreshId(s) == CHOOSE c \in Unspawned(s) : \A d \in Unspawned(s) : c <= d

InitUniq == uniq = UniqInit

\* The root (the thread's own code) is executing and is not inside a call.
RootRuns ==
    /\ ~uniq.dead
    /\ current(uniq) = Root
    /\ uniq.call[Root] = NoCall

\* Coroutine x is executing its body at an instruction.
CoRuns(x) ==
    /\ current(uniq) = x
    /\ x # Root
    /\ uniq.call[x] = NoCall
    /\ uniq.phase[x] = "body"

Instr(x) == Bodies[uniq.body[x]][uniq.pc[x]]

CoAt(x, op) ==
    /\ CoRuns(x)
    /\ uniq.pc[x] <= Len(Bodies[uniq.body[x]])
    /\ Instr(x).op = op

\* The handle an instruction of x names.
Target(x, who) == IF who = Self THEN x ELSE uniq.child[x]

RootSpawn(b) ==
    /\ RootRuns
    /\ Unspawned(uniq) # {}
    /\ UniqFrame
    /\ uniq' = spawn(uniq, Root, FreshId(uniq), b)

RootResume(h) ==
    /\ RootRuns
    /\ UniqFrame
    /\ uniq' = resume(uniq, Root, h, "resume")

RootJoin(h) ==
    /\ RootRuns
    /\ UniqFrame
    /\ uniq' = join(uniq, Root, h)

\* test_coroutine_yield_in_main: sched() or block() in the root.
RootYield(st) ==
    /\ RootRuns
    /\ UniqFrame
    /\ uniq' = yield_call(uniq, Root, st)

CoEffect(x) ==
    /\ CoAt(x, "eff")
    /\ UniqFrame
    /\ uniq' = [uniq EXCEPT !.log = Append(@, <<x, Instr(x).arg>>),
                            !.pc = [@ EXCEPT ![x] = @ + 1],
                            !.ev = Ev("eff", x, x, "none", "none", "none", None, FALSE)]

CoSched(x) ==
    /\ CoAt(x, "sched")
    /\ UniqFrame
    /\ uniq' = yield_call(uniq, x, "Suspended")

CoBlock(x) ==
    /\ CoAt(x, "block")
    /\ UniqFrame
    /\ uniq' = yield_call(uniq, x, "Blocked")

CoPanic(x) ==
    /\ CoAt(x, "panic")
    /\ UniqFrame
    /\ uniq' = [panic(uniq, x, [by |-> x, msg |-> "panic!"]) EXCEPT
                    !.ev = Ev("panic", x, x, "none", "none", "none", None, FALSE)]

CoSpawn(x) ==
    /\ CoAt(x, "spawn")
    /\ Unspawned(uniq) # {}
    /\ UniqFrame
    /\ uniq' = spawn(uniq, x, FreshId(uniq), Instr(x).arg)

CoResume(x) ==
    /\ CoAt(x, "resume")
    /\ UniqFrame
    /\ uniq' = resume(uniq, x, Target(x, Instr(x).arg), "resume")

CoJoin(x) ==
    /\ CoAt(x, "join")
    /\ UniqFrame
    /\ uniq' = join(uniq, x, Target(x, Instr(x).arg))

\* coroutine_initialize after the try: the closure of x returned normally
\* (lines 282-286) and the trampoline yields; switched into again after the
\* body ended, it yields once more with the same state (lines 310-312).
CoTrampoline(x) ==
    /\ current(uniq) = x
    /\ x # Root
    /\ uniq.call[x] = NoCall
    /\ \/ uniq.phase[x] = "body" /\ uniq.pc[x] > Len(Bodies[uniq.body[x]])
       \/ uniq.phase[x] = "exited"
    /\ UniqFrame
    /\ uniq' = [(IF uniq.phase[x] = "body"
                 THEN body_returned(uniq, x)
                 ELSE yield_now(uniq, trampoline_state(uniq, x))) EXCEPT
                    !.ev = Ev("finish", x, x, "none", "none", "none", None, FALSE)]

\* The swap of a resume returns into x (the coroutine it resumed yielded).
ResumeReturns(x) ==
    /\ ~uniq.dead
    /\ current(uniq) = x
    /\ uniq.call[x].at = "swap"
    /\ UniqFrame
    /\ uniq' = resume_returns(uniq, x)

JoinLoop(x) ==
    /\ ~uniq.dead
    /\ current(uniq) = x
    /\ uniq.call[x].at = "loop"
    /\ UniqFrame
    /\ uniq' = join_loop(uniq, x)

RootOwned == {h \in Coros : uniq.state[h] # "Unspawned" /\ uniq.owner[h] = Root}

NextUniq ==
    \/ \E b \in BodyIds : RootSpawn(b)
    \/ \E h \in RootOwned \cup {Root} : RootResume(h)
    \/ \E h \in RootOwned : RootJoin(h)
    \/ \E st \in {"Suspended", "Blocked"} : RootYield(st)
    \/ \E x \in Coros :
          \/ CoEffect(x)
          \/ CoSched(x)
          \/ CoBlock(x)
          \/ CoPanic(x)
          \/ CoSpawn(x)
          \/ CoResume(x)
          \/ CoJoin(x)
          \/ CoTrampoline(x)
    \/ \E x \in Ids : ResumeReturns(x) \/ JoinLoop(x)

\* Does closure b do nothing but effects and sched() before it returns?
YieldsThenReturns(b) == \A i \in 1..Len(Bodies[b]) : Bodies[b][i].op \in {"eff", "sched"}

\* The closure of test_coroutine_spawn_inside: effect 1, spawn and join a
\* child, effect 3; its child performs effects 1 and 2.
NestedBody == 5

\* The closures of test_coroutine_basic, test_coroutine_yield and
\* test_coroutine_spawn_inside.
JoinBodies == {b \in BodyIds : YieldsThenReturns(b)} \cup {NestedBody}

NextJoin ==
    \/ \E b \in JoinBodies : RootSpawn(b)
    \/ \E h \in RootOwned \cup {Root} : RootResume(h)
    \/ \E h \in RootOwned : RootJoin(h)
    \/ \E st \in {"Suspended", "Blocked"} : RootYield(st)
    \/ \E x \in Coros :
          \/ CoEffect(x)
          \/ CoSched(x)
          \/ CoSpawn(x)
          \/ CoJoin(x)
          \/ CoTrampoline(x)
    \/ \E x \in Ids : ResumeReturns(x) \/ JoinLoop(x)

(***************************************************************************)
(* asymmetric.rs: one asymmetric coroutine and the caller owning its       *)
(* Handle.  asym is a record: the Coroutine struct `meta` that lives on    *)
(* the coroutine's stack (state, context, panicked_error), the position    *)
(* of the coroutine in coroutine_entry (pos, pc, locals), who is           *)
(* executing (run), the function of the caller that waits for the switch   *)
(* back (call), and the stack.                                             *)
(***************************************************************************)
Data == 0..MaxData

\* usize::MAX, the data of a failed body (line 96).
usize_MAX == 0 - 1

\* Instructions of an asymmetric body.
AGuard(g) == [op |-> "guard", arg |-> g]

AYield(v) == [op |-> "yield_with", arg |-> v]

APark(v) == [op |-> "park_with", arg |-> v]

AYieldData == [op |-> "yield_data", arg |-> 0]

APanic == [op |-> "panic", arg |-> "111"]

APanicI32 == [op |-> "panic", arg |-> "1010"]

ARet(v) == [op |-> "ret", arg |-> v]

ARetData == [op |-> "ret_data", arg |-> 0]

\* The closures of the tests of asymmetric.rs (lines 422-551).
ABodies == <<
    <<AGuard(1), AYield(0), AGuard(2), ARet(0)>>,             \* 1 force_unwinding
    <<AYield(0), APark(0), ARet(0)>>,                         \* 2 state
    <<AGuard(1), APanic>>,                                    \* 3 unwinding
    <<AYieldData, ARetData>>,                                 \* 4 yield_data
    <<AYield(0), AYield(1), ARet(1)>>,                        \* 5 generator
    <<AGuard(1), APark(0), AGuard(2), AYield(1), ARet(0)>>,   \* 6 parked holding a guard
    <<APanicI32>>                                             \* 7 panicking
>>

ABodyIds == 1..Len(ABodies)

Guards == {1, 2}

\* An is_finished that does not count Panicked.
is_finished_unless_panicked(st) == st = "Finished"

\* Handle::is_finished, lines 328-333.
is_finished(st) == st \in {"Finished", "Panicked"}

\* Coroutine::spawn_opts_impl (lines 195-217) with coroutine_entry lines 48-69:
\* the coroutine has taken its InitData and waits, inside the try, for the
\* first resume.
AsymSpawned(b) ==
    [body |-> b,
     pc |-> 1,
     pos |-> "entry",
     state |-> "Suspended",
     context |-> "coro",
     panicked_error |-> None,
     run |-> "caller",
     call |-> "none",
     unwinding |-> "no",
     err |-> None,
     loc_data |-> 0,
     received |-> 0,
     locals |-> <<>>,
     created |-> {},
     drops |-> [g \in Guards |-> 0],
     stack |-> "mapped",
     handle |-> "live",
     caller_panicked |-> FALSE,
     res |-> None,
     sent |-> 0,                   \* the data of the last Handle::resume
     item |-> "unset",             \* what the last Iterator::next returned
     out |-> <<>>,                 \* the results Handle::resume has returned
     drop_state |-> "none",
     drop_steps |-> 0,
     steps |-> 0,
     unwinds |-> 0]

\* Control comes back to the caller with `data`; `null` says the Context that
\* came with it is the zeroed one of coroutine_exit.
\*   call = "resume": Coroutine::yield_with_state (lines 260-279) under Handle::resume
\*   call = "unwind": Coroutine::force_unwind (lines 298-300)
\*   call = "drop":   inner_yield_with_state under Drop for Handle (line 389)
back_to_caller(s, data, null) ==
    LET t == [s EXCEPT !.run = "caller",
                       !.call = "none",
                       !.context = IF null THEN "none" ELSE "coro"]
        r == IF t.state = "Panicked"
             THEN IF s.panicked_error # None
                  THEN Err([kind |-> "Panicking", payload |-> s.panicked_error[1]])
                  ELSE Err([kind |-> "Panicked", payload |-> "none"])
             ELSE <<"Ok", data>>
    IN  CASE s.call = "resume" ->
               [t EXCEPT !.panicked_error = IF t.state = "Panicked" THEN None ELSE @,
                         !.res = r,
                         !.out = Append(@, r)]
          [] s.call = "drop" -> [t EXCEPT !.handle = "dropped"]
          [] OTHER -> t

\* The loop of coroutine_entry (lines 104-112) hands loc_data to the caller.
entry_loop_resume(s) == back_to_caller([s EXCEPT !.pos = "loop"], s.loc_data, FALSE)

\* The end of coroutine_entry (lines 114-125) and coroutine_exit (128-139):
\* meta is destroyed and the stack is dropped on the way back to the caller.
entry_exit(s) ==
    back_to_caller([s EXCEPT !.pos = "gone", !.stack = "released"], s.loc_data, TRUE)

\* A switch into the body that hands over the data of the first resume again.
switch_in_stale_data(s, data, fn) ==
    LET t == [s EXCEPT !.run = "coro", !.call = fn, !.context = "caller"]
    IN  CASE s.pos = "entry" -> [t EXCEPT !.pos = "body", !.received = data]
          [] s.pos = "body" -> t
          [] s.pos = "loop" ->
               IF t.state = "Finished"
               THEN entry_exit([t EXCEPT !.loc_data = data])
               ELSE entry_loop_resume([t EXCEPT !.loc_data = data])
          [] OTHER -> t

\* The caller switches into the coroutine with `data` (Context::resume): the
\* coroutine goes on from where it was suspended.
switch_in(s, data, fn) ==
    LET t == [s EXCEPT !.run = "coro", !.call = fn, !.context = "caller"]
    IN  CASE s.pos = "entry" ->
               \* lines 69-75: the callback is called with the data
               [t EXCEPT !.pos = "body", !.received = data]
          [] s.pos = "body" ->
               \* lines 260-265: inner_yield_with_state returns the data to the body
               [t EXCEPT !.received = data]
          [] s.pos = "loop" ->
               \* lines 105-111
               IF t.state = "Finished"
               THEN entry_exit([t EXCEPT !.loc_data = data])
               ELSE entry_loop_resume([t EXCEPT !.loc_data = data])
          [] OTHER -> t

\* The caller switches into the coroutine with coroutine_unwind on top
\* (lines 141-150, 297-299): the coroutine starts unwinding with ForceUnwind
\* from where it was suspended.
switch_in_unwind(s) ==
    [s EXCEPT !.run = "coro", !.call = "unwind", !.context = "caller",
              !.unwinding = "panic", !.err = Some("ForceUnwind"),
              !.unwinds = @ + 1]

\* An inner_yield_with_state that does not store the state.
caller_yield_keeps_state(s, st, data, fn) ==
    switch_in([s EXCEPT !.context = "none"], data, fn)

\* Coroutine::inner_yield_with_state called by the caller (Handle::resume,
\* Drop for Handle): lines 251-260.
caller_yield_with_state(s, st, data, fn) ==
    switch_in([s EXCEPT !.state = st, !.context = "none"], data, fn)

\* A Drop for Handle that never unwinds.
drop_never_unwinds(st) == FALSE

\* A Drop for Handle that unwinds whatever the state.
drop_always_unwinds(st) == TRUE

\* Does Drop for Handle unwind the coroutine first?  (line 385)
drop_unwinds(st) == ~is_finished(st)

InitAsym == \E b \in ABodyIds : asym = AsymSpawned(b)

CallerRuns ==
    /\ asym.run = "caller"
    /\ asym.call = "none"

\* Handle::resume(data), lines 343-346.
AResume(data) ==
    /\ CallerRuns
    /\ asym.handle = "live"
    /\ ~asym.caller_panicked
    /\ AsymFrame
    /\ asym' = IF is_finished(asym.state)
               THEN [asym EXCEPT !.caller_panicked = TRUE, !.res = None]
               ELSE caller_yield_with_state([asym EXCEPT !.sent = data, !.item = "unset"],
                                            "Running", data, "resume")

\* Iterator::next, lines 406-416.
ANext ==
    /\ CallerRuns
    /\ asym.handle = "live"
    /\ ~asym.caller_panicked
    /\ AsymFrame
    /\ asym' = IF is_finished(asym.state)
               THEN [asym EXCEPT !.item = "None"]
               ELSE caller_yield_with_state([asym EXCEPT !.sent = 0, !.item = "Some"],
                                            "Running", 0, "resume")

\* Drop for Handle, lines 378-387: the Handle goes out of scope (also when
\* the caller unwinds from a panic of its own).
ADrop ==
    /\ CallerRuns
    /\ asym.handle = "live"
    /\ AsymFrame
    /\ asym' = LET t == [asym EXCEPT !.handle = "dropping",
                                     !.drop_state = asym.state,
                                     !.drop_steps = asym.steps]
               IN  IF drop_unwinds(asym.state)
                   THEN switch_in_unwind([t EXCEPT !.context = "none"])
                   ELSE t

\* Drop for Handle, line 389, once force_unwind (if any) has returned.
ADropYield ==
    /\ CallerRuns
    /\ asym.handle = "dropping"
    /\ AsymFrame
    /\ asym' = caller_yield_with_state(asym, "Finished", 0, "drop")

ABodyRuns ==
    /\ asym.run = "coro"
    /\ asym.pos = "body"
    /\ asym.unwinding = "no"

AInstr == ABodies[asym.body][asym.pc]

\* let _guard = Guard { .. }
AStepGuard ==
    /\ ABodyRuns
    /\ AInstr.op = "guard"
    /\ AsymFrame
    /\ asym' = [asym EXCEPT !.locals = Append(@, AInstr.arg),
                            !.created = @ \cup {AInstr.arg},
                            !.steps = @ + 1,
                            !.pc = @ + 1]

\* coro.yield_with(v) / coro.park_with(v), lines 284-292 and 251-260.
AStepYield ==
    /\ ABodyRuns
    /\ AInstr.op \in {"yield_with", "park_with", "yield_data"}
    /\ AsymFrame
    /\ asym' = LET st == IF AInstr.op = "park_with" THEN "Parked" ELSE "Suspended"
                   v == IF AInstr.op = "yield_data" THEN asym.received ELSE AInstr.arg
               IN  back_to_caller([asym EXCEPT !.state = st, !.context = "none",
                                               !.steps = @ + 1,
                                               !.pc = @ + 1], v, FALSE)

\* panic!(..) in the body: the body starts unwinding.
AStepPanic ==
    /\ ABodyRuns
    /\ AInstr.op = "panic"
    /\ AsymFrame
    /\ asym' = [asym EXCEPT !.unwinding = "panic", !.err = Some(AInstr.arg),
                            !.steps = @ + 1]

\* The body returns a value: its locals go out of scope.
AStepReturn ==
    /\ ABodyRuns
    /\ AInstr.op \in {"ret", "ret_data"}
    /\ AsymFrame
    /\ asym' = [asym EXCEPT !.unwinding = "return",
                            !.steps = @ + 1,
                            !.loc_data = IF AInstr.op = "ret_data" THEN asym.received
                                         ELSE AInstr.arg]

\* Leaving the frame of the body (a return or an unwinding): the destructor
\* of the most recent live local runs.
ADestroyLocal ==
    /\ asym.run = "coro"
    /\ asym.unwinding # "no"
    /\ asym.locals # <<>>
    /\ AsymFrame
    /\ asym' = [asym EXCEPT !.locals = Front(@),
                            !.drops = [@ EXCEPT ![Last(asym.locals)] = @ + 1]]

\* The try of coroutine_entry returns (lines 84-98) and the loop hands
\* control back (line 105).
ATryReturns ==
    /\ asym.run = "coro"
    /\ asym.unwinding # "no"
    /\ asym.locals = <<>>
    /\ AsymFrame
    /\ asym' = LET t == [asym EXCEPT !.unwinding = "no", !.err = None]
               IN  entry_loop_resume(
                     IF asym.unwinding = "return"
                     THEN [t EXCEPT !.state = "Finished"]
                     ELSE IF asym.err = Some("ForceUnwind")
                          THEN [t EXCEPT !.state = "Finished", !.loc_data = usize_MAX]
                          ELSE [t EXCEPT !.state = "Panicked",
                                         !.panicked_error = asym.err,
                                         !.loc_data = usize_MAX])

NextAsym ==
    \/ \E data \in Data : AResume(data)
    \/ ANext
    \/ ADrop
    \/ ADropYield
    \/ AStepGuard
    \/ AStepYield
    \/ AStepPanic
    \/ AStepReturn
    \/ ADestroyLocal
    \/ ATryReturns

(***************************************************************************)
(* coroutine_clonable.rs: one coroutine, spawned by thread 1, and threads  *)
(* that each hold a clone of its Handle and call resume on it; the body    *)
(* may spawn and resume a child of its own.  clon is a                     *)
(* record: the Coroutine (state under its spin lock, saved_context), the   *)
(* position of its body, and per thread the thread-local Environment and   *)
(* the position of the thread inside Handle::resume or inside the          *)
(* coroutine.  Every access to the shared state is a step of its own.      *)
(***************************************************************************)
Threads == 1..MaxThreads

\* Bodies of the clonable coroutine (examples/threadsafe.rs, tests.rs).
ClBodies == <<
    <<"sched", "sched">>,
    <<"block", "sched">>,
    <<"sched", "panic">>,
    <<>>,
    <<"resume_child", "sched">>
>>

ClBodyIds == 1..Len(ClBodies)

\* Environment::new with enable-clonable-handle, environment.rs lines 48-68.
ClEnvNew == [coroutine_stack |-> <<"root">>,
             running_state |-> None,
             switch_state |-> "Suspended"]

\* Coroutine::spawn_opts (lines 318-328) and one Handle::clone per thread.
ClonSpawned(b) ==
    [body |-> b,
     pc |-> 1,
     state |-> "Suspended",
     saved_context |-> TRUE,       \* is saved_context the coroutine's suspension point?
     pos |-> "body",
     child |-> "none",             \* state of the coroutine its body spawns
     exit_state |-> "Suspended",   \* `state` of coroutine_initialize
     stale |-> FALSE,              \* was a context loaded that was not saved?
     ran_on |-> {},
     env |-> [t \in Threads |-> ClEnvNew],
     root_state |-> [t \in Threads |-> "Running"],
     at |-> [t \in Threads |-> "idle"],
     found |-> [t \in Threads |-> "none"],
     switched |-> [t \in Threads |-> FALSE],
     res |-> [t \in Threads |-> None]]

\* The threads that execute on the coroutine's stack.
ClInside(c) ==
    {t \in Threads : c.at[t] \in {"in_coro", "yield_swap", "in_child", "child_back"}}

\* Handle::resume with the arm for State::Normal left out of its match.
clon_resume_lock_enters_normal(c, t) ==
    LET d == [c EXCEPT !.found[t] = c.state, !.switched[t] = FALSE]
    IN  CASE c.state = "Finished" -> [d EXCEPT !.res[t] = Some(Err("Finished"))]
          [] c.state = "Panicked" -> [d EXCEPT !.res[t] = Some(Err("Panicked"))]
          [] c.state = "Running" -> [d EXCEPT !.res[t] = Some(Ok)]
          [] OTHER -> [d EXCEPT !.state = "Running", !.res[t] = None, !.at[t] = "enter"]

\* Handle::resume, lines 124-136: the match under the state lock.
clon_resume_lock(c, t) ==
    LET d == [c EXCEPT !.found[t] = c.state, !.switched[t] = FALSE]
    IN  CASE c.state = "Finished" -> [d EXCEPT !.res[t] = Some(Err("Finished"))]
          [] c.state = "Panicked" -> [d EXCEPT !.res[t] = Some(Err("Panicked"))]
          [] c.state = "Normal" -> [d EXCEPT !.res[t] = Some(Err("Waiting"))]
          [] c.state = "Running" -> [d EXCEPT !.res[t] = Some(Ok)]
          [] OTHER -> [d EXCEPT !.state = "Running", !.res[t] = None, !.at[t] = "enter"]

\* Handle::resume, lines 138-150: up to and including Context::swap.
clon_resume_swap(c, t) ==
    [c EXCEPT !.root_state[t] = "Normal",
              !.env[t].coroutine_stack = Append(@, "coro"),
              !.stale = @ \/ ~c.saved_context,
              !.saved_context = FALSE,
              !.switched[t] = TRUE,
              !.ran_on = @ \cup {t},
              !.at[t] = "in_coro"]

\* Coroutine::yield_now, lines 339-353: up to the swap.  What it stores as
\* the coroutine's state goes to env.switch_state only.
clon_yield_now_sets_state(c, t, st) ==
    [c EXCEPT !.env[t].coroutine_stack = Front(@),
              !.env[t].switch_state = st,
              !.state = st,
              !.at[t] = "yield_swap"]

clon_yield_now(c, t, st) ==
    [c EXCEPT !.env[t].coroutine_stack = Front(@),
              !.env[t].switch_state = st,
              !.at[t] = "yield_swap"]

\* Coroutine::yield_now, line 354: the swap saves the coroutine's context
\* and goes on in Handle::resume of the thread.
clon_yield_swap(c, t) ==
    [c EXCEPT !.saved_context = TRUE,
              !.at[t] = "back"]

\* Handle::resume of a child's handle, called by the coroutine: lines 124-150
\* with the coroutine as from_coro.  The child's handle is known to the
\* coroutine only.
clon_resume_child(c, t) ==
    [c EXCEPT !.child = "Running",
              !.state = "Normal",
              !.env[t].coroutine_stack = Append(@, "child"),
              !.saved_context = TRUE,
              !.at[t] = "in_child"]

\* The child's body returns: coroutine_initialize and yield_now(Finished),
\* lines 252-292 and 339-354, switch back to the coroutine.
clon_child_yield(c, t) ==
    [c EXCEPT !.env[t].coroutine_stack = Front(@),
              !.env[t].switch_state = "Finished",
              !.stale = @ \/ ~c.saved_context,
              !.saved_context = FALSE,
              !.at[t] = "child_back"]

\* Handle::resume of the child's handle, lines 152-159, after the swap.
clon_child_back(c, t) ==
    [c EXCEPT !.state = "Running",
              !.child = c.env[t].switch_state,
              !.pc = @ + 1,
              !.at[t] = "in_coro"]

InitClon == \E b \in ClBodyIds : clon = ClonSpawned(b)

ClResumeLock(t) ==
    /\ clon.at[t] = "idle"
    /\ ClonFrame
    /\ clon' = clon_resume_lock(clon, t)

ClResumeSwap(t) ==
    /\ clon.at[t] = "enter"
    /\ ClonFrame
    /\ clon' = clon_resume_swap(clon, t)

ClRunsBody(t) ==
    /\ clon.at[t] = "in_coro"
    /\ clon.pos = "body"

\* Coroutine::sched() / Coroutine::block() in the body, lines 363-371.
ClYield(t) ==
    /\ ClRunsBody(t)
    /\ clon.pc <= Len(ClBodies[clon.body])
    /\ ClBodies[clon.body][clon.pc] \in {"sched", "block"}
    /\ ClonFrame
    /\ clon' = clon_yield_now([clon EXCEPT !.pc = @ + 1], t,
                              IF ClBodies[clon.body][clon.pc] = "block"
                              THEN "Blocked" ELSE "Suspended")

\* Coroutine::spawn(|| {}).resume() in the body.
ClResumeChild(t) ==
    /\ ClRunsBody(t)
    /\ clon.pc <= Len(ClBodies[clon.body])
    /\ ClBodies[clon.body][clon.pc] = "resume_child"
    /\ ClonFrame
    /\ clon' = clon_resume_child(clon, t)

ClChildYield(t) ==
    /\ clon.at[t] = "in_child"
    /\ ClonFrame
    /\ clon' = clon_child_yield(clon, t)

ClChildBack(t) ==
    /\ clon.at[t] = "child_back"
    /\ ClonFrame
    /\ clon' = clon_child_back(clon, t)

\* coroutine_initialize, lines 252-288: the body returned or panicked.
ClTrampoline(t) ==
    /\ ClRunsBody(t)
    /\ ClonFrame
    /\ \/ /\ clon.pc > Len(ClBodies[clon.body])
          /\ clon' = [clon EXCEPT !.pos = "loop", !.exit_state = "Finished",
                                  !.env[t].running_state = None]
       \/ /\ clon.pc <= Len(ClBodies[clon.body])
          /\ ClBodies[clon.body][clon.pc] = "panic"
          /\ clon' = [clon EXCEPT !.pos = "loop", !.exit_state = "Panicked",
                                  !.env[t].running_state = Some("panic!")]

\* coroutine_initialize, lines 290-292: loop { yield_now(state) }.
ClExitYield(t) ==
    /\ clon.at[t] = "in_coro"
    /\ clon.pos = "loop"
    /\ ClonFrame
    /\ clon' = clon_yield_now(clon, t, clon.exit_state)

ClYieldSwap(t) ==
    /\ clon.at[t] = "yield_swap"
    /\ ClonFrame
    /\ clon' = clon_yield_swap(clon, t)

\* Handle::resume, line 152.
ClBackRoot(t) ==
    /\ clon.at[t] = "back"
    /\ ClonFrame
    /\ clon' = [clon EXCEPT !.root_state[t] = "Running", !.at[t] = "publish"]

\* Handle::resume, line 153.
ClPublish(t) ==
    /\ clon.at[t] = "publish"
    /\ ClonFrame
    /\ clon' = [clon EXCEPT !.state = clon.env[t].switch_state, !.at[t] = "take"]

\* Handle::resume, lines 156-159.
ClTake(t) ==
    /\ clon.at[t] = "take"
    /\ ClonFrame
    /\ clon' = [clon EXCEPT !.env[t].running_state = None,
                            !.res[t] = IF clon.env[t].running_state # None
                                       THEN Some(Err("Panicking"))
                                       ELSE Some(Ok),
                            !.at[t] = "idle"]

NextClon ==
    \/ \E t \in Threads : ClResumeLock(t)
    \/ \E t \in Threads : ClResumeSwap(t)
    \/ \E t \in Threads : ClYield(t)
    \/ \E t \in Threads : ClResumeChild(t)
    \/ \E t \in Threads : ClChildYield(t)
    \/ \E t \in Threads : ClChildBack(t)
    \/ \E t \in Threads : ClTrampoline(t)
    \/ \E t \in Threads : ClExitYield(t)
    \/ \E t \in Threads : ClYieldSwap(t)
    \/ \E t \in Threads : ClBackRoot(t)
    \/ \E t \in Threads : ClPublish(t)
    \/ \E t \in Threads : ClTake(t)

(***************************************************************************)
(* scheduler.rs over coroutine.rs: scheduler threads, each with its        *)
(* private FIFO, stealable deque, control channel, neighbour list and      *)
(* event loop, and the coroutines they resume.  sch is a record:           *)
(*   started, counter   SCHEDULER_HAS_STARTED and the counter of run       *)
(*   registry           the Vec behind schedulers()                        *)
(*   th[t]              the Scheduler and Environment of thread t and the  *)
(*                      position of t in run / schedule / resume_coroutine *)
(*   co[c]              coroutine c: state, parent, closure and position   *)
(* Thread 1 is the thread that calls Scheduler::run.                       *)
(***************************************************************************)
MainThread == 1

MAX_PRIVATE_WORK_NUM == 10

\* How many coroutines the main thread may hand to Scheduler::spawn before it
\* calls Scheduler::run: enough to fill the private FIFO.
MaxFill == MAX_PRIVATE_WORK_NUM

SCoros == 1..(MaxFill + MaxSched)

Tokens == 0..(MaxSched - 1)

\* Closures run under the scheduler.  An instruction is sched(), a
\* Scheduler::spawn of another closure, a wait_event, a panic, or a
\* `loop { sched() }`.
SInstr(op, arg) == [op |-> op, arg |-> arg]

SBodies == <<
    <<>>,                                             \* 1 returns at once
    <<SInstr("sched", 0)>>,                           \* 2 yields once
    <<SInstr("wait", 0)>>,                            \* 3 waits for an I/O source
    <<SInstr("panic", 0)>>,                           \* 4 panics
    <<SInstr("spawn", 2), SInstr("sched", 0)>>,       \* 5 spawns a child that yields
    <<SInstr("spawn", 3)>>,                           \* 6 spawns a child that waits
    <<SInstr("spawn", 8)>>,                           \* 7 spawns a child that yields for ever
    <<SInstr("loop_sched", 0)>>,                      \* 8 yields for ever
    <<SInstr("wait", 0), SInstr("sched", 0)>>         \* 9 waits for an I/O source, then yields
>>

FillerBody == 1

SBodyIds == 1..Len(SBodies)

NewNeighbor(t) == [msg |-> "NewNeighbor", from |-> t]

Shutdown == [msg |-> "Shutdown", from |-> 0]

\* A thread before its Scheduler exists.
NoScheduler ==
    [created |-> FALSE,
     at |-> "none",
     private_work |-> <<>>,
     workqueue |-> <<>>,
     commchannel |-> <<>>,
     neighbors |-> <<>>,
     slabs |-> [k \in Tokens |-> 0],
     registered |-> {},
     need_steal |-> FALSE,
     has_stolen |-> FALSE,
     stolen_works |-> <<>>,
     idx |-> 0,
     work |-> 0,
     pre |-> "none",
     back |-> "none",
     root_state |-> "Running",
     current_running |-> 0,
     running_state |-> None,
     saw_shutdown |-> FALSE]

NoCoroutine ==
    [state |-> "Unspawned", parent |-> 0, body |-> 0, pc |-> 1, on |-> 0,
     pos |-> "none", token |-> 0, io |-> None, main |-> FALSE, failed |-> FALSE]

NoSEv == [op |-> "none", t |-> 0, c |-> 0, pre |-> "none", post |-> "none", q |-> "none"]

SEv(op, t, c, pre, post, q) == [op |-> op, t |-> t, c |-> c, pre |-> pre, post |-> post, q |-> q]

SchedInit ==
    [started |-> FALSE,
     phase |-> "setup",
     counter |-> 0,
     registry |-> <<>>,
     th |-> [t \in Threads |-> NoScheduler],
     co |-> [c \in SCoros |-> NoCoroutine],
     next_co |-> 1,
     ev |-> NoSEv]

\* A Scheduler::new that registers the new scheduler before it copies the
\* registry.
Scheduler_new_registers_first(s, t) ==
    [s EXCEPT !.th = [u \in Threads |->
                        IF u = t
                        THEN [s.th[t] EXCEPT !.created = TRUE,
                                             !.neighbors = Append(s.registry, t)]
                        ELSE IF u \in Range(s.registry)
                             THEN [s.th[u] EXCEPT !.commchannel = Append(@, NewNeighbor(t))]
                             ELSE s.th[u]],
              !.registry = Append(@, t)]

\* Scheduler::new (lines 88-117) on thread t, under the lock of schedulers():
\* every registered scheduler is told of the new one, the new one takes the
\* registered ones as neighbours, then registers itself.
Scheduler_new(s, t) ==
    [s EXCEPT !.th = [u \in Threads |->
                        IF u = t
                        THEN [s.th[t] EXCEPT !.created = TRUE, !.neighbors = s.registry]
                        ELSE IF u \in Range(s.registry)
                             THEN [s.th[u] EXCEPT !.commchannel = Append(@, NewNeighbor(t))]
                             ELSE s.th[u]],
              !.registry = Append(@, t)]

\* Scheduler::current() (lines 119-123): the thread-local Scheduler, created
\* on first use.
Scheduler_current(s, t) == IF s.th[t].created THEN s ELSE Scheduler_new(s, t)

\* A ready that always uses the private FIFO.
ready_always_private(s, t, work) ==
    [s EXCEPT !.th[t].private_work = Append(@, work),
              !.ev = SEv("ready", t, work, s.co[work].state, "none", "private")]

\* Scheduler::ready, lines 141-147.
ready(s, t, work) ==
    IF Len(s.th[t].private_work) >= MAX_PRIVATE_WORK_NUM
    THEN [s EXCEPT !.th[t].workqueue = Append(@, work),
                   !.ev = SEv("ready", t, work, s.co[work].state, "none", "deque")]
    ELSE [s EXCEPT !.th[t].private_work = Append(@, work),
                   !.ev = SEv("ready", t, work, s.co[work].state, "none", "private")]

\* Coroutine::spawn (coroutine.rs lines 319-343) of closure b.
Coroutine_spawn(s, b, is_main) ==
    [s EXCEPT !.co[s.next_co] = [NoCoroutine EXCEPT !.state = "Suspended", !.body = b,
                                                    !.pos = "body", !.main = is_main],
              !.next_co = @ + 1]

\* Scheduler::spawn (lines 125-131) called on thread t by the code running
\* there (self_co = 0: the thread's root): the new coroutine is made ready
\* and the caller yields with sched().  The yield is left to the caller.
Scheduler_spawn(s, t, b, is_main) ==
    LET s1 == Scheduler_current(Coroutine_spawn(s, b, is_main), t)
    IN  ready(s1, t, s.next_co)

\* Handle::resume of coroutine.rs (lines 121-155) called by the root of
\* thread t on coroutine w, up to and including Context::swap.
Handle_resume(s, t, w) ==
    CASE s.co[w].state \in {"Finished", "Running"} ->
           [s EXCEPT !.th[t].at = "after"]
      [] s.co[w].state = "Panicked" ->
           [s EXCEPT !.th[t].at = "crashed"]
      [] OTHER ->
           [s EXCEPT !.co[w].state = "Running",
                     !.co[w].parent = s.th[t].current_running,
                     !.co[w].on = t,
                     \* wait_event goes on after Coroutine::block(): Ok(())
                     !.co[w].pos = IF @ = "in_wait" THEN "body" ELSE @,
                     !.co[w].io = IF s.co[w].pos = "in_wait" THEN Some("Ok") ELSE @,
                     !.th[t].root_state = "Normal",
                     !.th[t].current_running = w,
                     !.th[t].at = "coro"]

\* Scheduler::resume_coroutine, lines 197-201 and 229-234: the match on the
\* state of the handle and the call of resume.  `back` is the place of
\* schedule that called it.
resume_coroutine(s, t, w, back) ==
    IF s.co[w].state \in {"Suspended", "Blocked"}
    THEN Handle_resume([s EXCEPT !.th[t].work = w, !.th[t].back = back,
                                 !.th[t].pre = s.co[w].state,
                                 !.ev = SEv("resume", t, w, s.co[w].state, "none", "none")],
                       t, w)
    ELSE [s EXCEPT !.th[t].at = back,
                   !.ev = SEv("not_resumed", t, w, s.co[w].state, s.co[w].state, "none")]

\* A resume_coroutine that also hands a Blocked handle to ready.
resume_coroutine_after_requeues_blocked(s, t) ==
    LET w == s.th[t].work
        st == s.co[w].state
        s1 == [s EXCEPT !.th[t].current_running = 0,
                        !.th[t].running_state = None,
                        !.th[t].work = 0,
                        !.th[t].pre = "none",
                        !.th[t].back = "none",
                        !.th[t].at = s.th[t].back]
    IN  IF st \in {"Suspended", "Blocked"}
        THEN LET s2 == ready(s1, t, w)
             IN  [s2 EXCEPT !.ev = SEv("resumed", t, w, s.th[t].pre, st, s2.ev.q)]
        ELSE [s1 EXCEPT !.ev = SEv("resumed", t, w, s.th[t].pre, st, "dropped")]

\* Scheduler::resume_coroutine, lines 201-228, once resume has returned
\* (coroutine.rs lines 148-153 included): the payload is taken and logged,
\* and the handle goes where its state says.
resume_coroutine_after(s, t) ==
    LET w == s.th[t].work
        st == s.co[w].state
        s1 == [s EXCEPT !.th[t].current_running = 0,
                        !.th[t].running_state = None,
                        !.th[t].work = 0,
                        !.th[t].pre = "none",
                        !.th[t].back = "none",
                        !.th[t].at = s.th[t].back]
    IN  CASE st \in {"Normal", "Running"} ->
               [s1 EXCEPT !.th[t].at = "crashed",
                          !.ev = SEv("unreachable", t, w, s.th[t].pre, st, "none")]
          [] st = "Suspended" ->
               LET s2 == ready(s1, t, w)
               IN  [s2 EXCEPT !.ev = SEv("resumed", t, w, s.th[t].pre, st, s2.ev.q)]
          [] st = "Blocked" ->
               [s1 EXCEPT !.ev = SEv("resumed", t, w, s.th[t].pre, st, "none")]
          [] OTHER ->
               [s1 EXCEPT !.ev = SEv("resumed", t, w, s.th[t].pre, st, "dropped")]

\* Coroutine::yield_now(st) of coroutine.rs (lines 346-362) by the coroutine
\* running on thread t: control goes to its parent, here the root of t, in
\* the resume that switched into it.
Coroutine_yield_now(s, t, st) ==
    LET c == s.th[t].current_running
    IN  [s EXCEPT !.co[c].state = st,
                  !.co[c].on = 0,
                  !.th[t].at = "after"]

\* The Slab's insert: the first vacant token.
FirstVacant(slabs) == CHOOSE k \in Tokens : slabs[k] = 0 /\ \A j \in Tokens : slabs[j] = 0 => k <= j

\* Scheduler::wait_event (lines 332-343) called by the coroutine running on
\* thread t; ok says whether the registration with the event loop succeeds.
wait_event(s, t, ok) ==
    LET c == s.th[t].current_running
        token == FirstVacant(s.th[t].slabs)
        s1 == [s EXCEPT !.th[t].slabs[token] = c,
                        !.co[c].token = token,
                        !.co[c].pc = @ + 1]
    IN  IF ok
        THEN Coroutine_yield_now(
                 [s1 EXCEPT !.th[t].registered = @ \cup {token},
                            !.co[c].pos = "in_wait",
                            !.ev = SEv("wait_event", t, c, "Running", "Blocked", "none")],
                 t, "Blocked")
        ELSE [s1 EXCEPT !.co[c].io = Some("Err"),
                        !.ev = SEv("wait_event", t, c, "Running", "Running", "error")]

\* A handler that leaves the token in the Slab.
handler_ready_keeps_token(s, t, token) ==
    IF s.th[t].slabs[token] # 0
    THEN LET hdl == s.th[t].slabs[token]
             s1 == ready(s, t, hdl)
         IN  [s1 EXCEPT !.ev = SEv("event", t, hdl, s.co[hdl].state, "none", s1.ev.q)]
    ELSE [s EXCEPT !.ev = SEv("event", t, 0, "none", "none", "none")]

\* Handler::readable / writable (lines 353-392) for `token` on thread t.
handler_ready(s, t, token) ==
    IF s.th[t].slabs[token] # 0
    THEN LET hdl == s.th[t].slabs[token]
             s1 == ready([s EXCEPT !.th[t].slabs[token] = 0,
                                   !.th[t].registered = @ \ {token}],
                         t, hdl)
         IN  [s1 EXCEPT !.ev = SEv("event", t, hdl, s.co[hdl].state, "none", s1.ev.q)]
    ELSE [s EXCEPT !.ev = SEv("event", t, 0, "none", "none", "none")]

\* Drop for Guard in Scheduler::run (lines 174-185): Shutdown goes to every
\* registered scheduler.
send_shutdown(s) ==
    [s EXCEPT !.th = [u \in Threads |->
                        IF u \in Range(s.registry)
                        THEN [s.th[u] EXCEPT !.commchannel = Append(@, Shutdown)]
                        ELSE s.th[u]]]

\* A steal that hands out the oldest handle and leaves it in the deque.
steal_leaves_handle(s, n) ==
    IF s.th[n].workqueue = <<>>
    THEN [stolen |-> 0, s |-> s]
    ELSE [stolen |-> Head(s.th[n].workqueue), s |-> s]

\* Stealer::steal on the deque of thread n: the oldest handle, if any.
steal(s, n) ==
    IF s.th[n].workqueue = <<>>
    THEN [stolen |-> 0, s |-> s]
    ELSE [stolen |-> Head(s.th[n].workqueue),
          s |-> [s EXCEPT !.th[n].workqueue = Tail(@)]]

RECURSIVE spawn_fillers(_, _)
\* n calls of Scheduler::spawn from the code of the main thread, outside any
\* coroutine: each sched() of theirs returns to the caller at once.
spawn_fillers(s, n) ==
    IF n = 0 THEN s
    ELSE spawn_fillers([Scheduler_spawn(s, MainThread, FillerBody, FALSE) EXCEPT
                            !.th[MainThread].root_state = "Suspended"], n - 1)

InitSched == sch = SchedInit

\* The main thread calls Scheduler::spawn MaxFill times before Scheduler::run.
SFill ==
    /\ sch.phase = "setup"
    /\ SchedFrame
    /\ sch' = [spawn_fillers(sch, MaxFill) EXCEPT !.phase = "filled"]

\* Scheduler::run, lines 153-167: the flag is set and the worker threads are
\* started; the main thread waits for the counter.
SRun ==
    /\ sch.phase \in {"setup", "filled"}
    /\ SchedFrame
    /\ sch' = [sch EXCEPT !.started = TRUE,
                          !.phase = "starting",
                          !.th = [t \in Threads |->
                                    [sch.th[t] EXCEPT !.at = IF t = MainThread
                                                             THEN "wait_counter" ELSE "new"]]]

\* A worker thread, lines 162-164: Scheduler::current() and the counter.
SWorkerNew(t) ==
    /\ sch.th[t].at = "new"
    /\ SchedFrame
    /\ sch' = [Scheduler_current(sch, t) EXCEPT !.counter = @ + 1,
                                                !.th[t].at = "recv"]

\* Scheduler::run, lines 168-190: all workers are there; the closure b is
\* wrapped with the Guard, spawned, and the main thread enters schedule.
SRunSpawn(b) ==
    /\ sch.th[MainThread].at = "wait_counter"
    /\ sch.counter = MaxThreads - 1
    /\ SchedFrame
    /\ sch' = [Scheduler_spawn(sch, MainThread, b, TRUE) EXCEPT
                   !.phase = "running",
                   !.th[MainThread].root_state = "Suspended",
                   !.th[MainThread].at = "recv"]

\* A Slab that always reports to be empty.
SlabsInUse_never(s, t) == FALSE

\* Whether some token of the Slab of thread t is in use.
SlabsInUse(s, t) == \E k \in Tokens : s.th[t].slabs[k] # 0

\* schedule, lines 239-249: one message of the control channel, if any.  With
\* an empty Slab the thread goes straight to its private FIFO (line 251).
SRecv(t) ==
    /\ sch.th[t].at = "recv"
    /\ SchedFrame
    /\ LET next == IF SlabsInUse(sch, t) THEN "poll" ELSE "private"
       IN  sch' =
             IF sch.th[t].commchannel = <<>>
             THEN [sch EXCEPT !.th[t].at = next, !.th[t].need_steal = TRUE]
             ELSE LET m == Head(sch.th[t].commchannel)
                      s1 == [sch EXCEPT !.th[t].commchannel = Tail(@)]
                  IN  IF m.msg = "Shutdown"
                      THEN [s1 EXCEPT !.th[t].at = "exit", !.th[t].saw_shutdown = TRUE,
                                      !.ev = SEv("shutdown", t, 0, "none", "none", "none")]
                      ELSE [s1 EXCEPT !.th[t].neighbors = Append(@, m.from),
                                      !.th[t].at = next, !.th[t].need_steal = TRUE]

\* schedule, lines 251-253: run_once of the event loop.  fire = -1: no source
\* was ready; otherwise the handler is called for token fire, which is
\* registered with the event loop or is no longer in the Slab (a source
\* reported twice).
SPoll(t, fire) ==
    /\ sch.th[t].at = "poll"
    /\ fire \in Tokens => (fire \in sch.th[t].registered \/ sch.th[t].slabs[fire] = 0)
    /\ SchedFrame
    /\ sch' = [(IF fire \in Tokens THEN handler_ready(sch, t, fire) ELSE sch) EXCEPT
                   !.th[t].at = "private"]

\* The loop of schedule starts over: the locals of the round are gone.
loop_again(s, t) ==
    [s EXCEPT !.th[t].at = "recv", !.th[t].need_steal = FALSE, !.th[t].has_stolen = FALSE,
              !.th[t].idx = 0, !.th[t].stolen_works = <<>>]

\* schedule, lines 302-306, between two stolen handles: after the last one
\* the loop starts over (has_stolen is set).
next_round(s, t) ==
    IF s.th[t].at = "stolen" /\ s.th[t].stolen_works = <<>> /\ s.th[t].has_stolen
    THEN loop_again(s, t)
    ELSE s

\* schedule, lines 264-267: one turn of the loop over the private FIFO.
SPrivate(t) ==
    /\ sch.th[t].at = "private"
    /\ sch.th[t].private_work # <<>>
    /\ SchedFrame
    /\ sch' = resume_coroutine([sch EXCEPT !.th[t].private_work = Tail(@),
                                           !.th[t].need_steal = FALSE],
                               t, Head(sch.th[t].private_work), "private")

\* schedule, lines 264 and 269-278: the private FIFO is empty; if nothing was
\* run in this round one handle of the thread's own deque is taken, and the
\* thread goes on to its neighbours if there was none and no token is in use.
SOwnSteal(t) ==
    /\ sch.th[t].at = "private"
    /\ sch.th[t].private_work = <<>>
    /\ SchedFrame
    /\ LET r == steal(sch, t)
       IN  sch' =
             IF ~sch.th[t].need_steal
             THEN loop_again(sch, t)
             ELSE IF r.stolen # 0
             THEN resume_coroutine([r.s EXCEPT !.th[t].need_steal = FALSE],
                                   t, r.stolen, "recv")
             ELSE IF SlabsInUse(sch, t)
             THEN loop_again(sch, t)
             ELSE [sch EXCEPT !.th[t].at = IF sch.th[t].neighbors = <<>> THEN "stolen" ELSE "steal",
                              !.th[t].idx = 1,
                              !.th[t].stolen_works = <<>>,
                              !.th[t].has_stolen = FALSE]

\* schedule, lines 295-302: one steal from the next neighbour.
SStealNeighbor(t) ==
    /\ sch.th[t].at = "steal"
    /\ SchedFrame
    /\ LET n == sch.th[t].neighbors[sch.th[t].idx]
           r == steal(sch, n)
       IN  sch' = [r.s EXCEPT
                       !.th[t].idx = @ + 1,
                       !.th[t].at = IF sch.th[t].idx = Len(sch.th[t].neighbors)
                                    THEN "stolen" ELSE "steal",
                       !.th[t].stolen_works = IF r.stolen = 0 THEN @ ELSE Append(@, r.stolen),
                       !.ev = IF r.stolen = 0
                              THEN @
                              ELSE SEv("stolen", t, r.stolen, sch.co[r.stolen].state,
                                       "none", "none")]

\* schedule, lines 303-306: the next stolen handle is resumed.
SResumeStolen(t) ==
    /\ sch.th[t].at = "stolen"
    /\ sch.th[t].stolen_works # <<>>
    /\ SchedFrame
    /\ sch' = next_round(resume_coroutine([sch EXCEPT !.th[t].stolen_works = Tail(@),
                                                      !.th[t].has_stolen = TRUE],
                                          t, Head(sch.th[t].stolen_works), "stolen"), t)

\* schedule, lines 308-310: nothing was stolen, thread::sleep_ms(100).
SSleep(t) ==
    /\ sch.th[t].at = "stolen"
    /\ sch.th[t].stolen_works = <<>>
    /\ ~sch.th[t].has_stolen
    /\ SchedFrame
    /\ sch' = loop_again(sch, t)

\* resume has returned into resume_coroutine.
SAfterResume(t) ==
    /\ sch.th[t].at = "after"
    /\ SchedFrame
    /\ sch' = next_round(resume_coroutine_after(sch, t), t)

\* schedule has returned: run resets the flag (line 192), a worker ends.
SExit(t) ==
    /\ sch.th[t].at = "exit"
    /\ SchedFrame
    /\ sch' = [sch EXCEPT !.th[t].at = "done",
                          !.started = IF t = MainThread THEN FALSE ELSE @]

\* The coroutine running on thread t, and its next instruction.
SRunning(t) == sch.th[t].current_running

SAtInstr(t, op) ==
    /\ sch.th[t].at = "coro"
    /\ ~sch.co[SRunning(t)].failed
    /\ sch.co[SRunning(t)].pc <= Len(SBodies[sch.co[SRunning(t)].body])
    /\ SBodies[sch.co[SRunning(t)].body][sch.co[SRunning(t)].pc].op = op

SAtEnd(t) ==
    /\ sch.th[t].at = "coro"
    /\ \/ sch.co[SRunning(t)].failed
       \/ sch.co[SRunning(t)].pc > Len(SBodies[sch.co[SRunning(t)].body])

\* Coroutine::sched() in a closure.
SCoSched(t) ==
    /\ SAtInstr(t, "sched")
    /\ SchedFrame
    /\ sch' = Coroutine_yield_now([sch EXCEPT !.co[SRunning(t)].pc = @ + 1], t, "Suspended")

\* One round of `loop { Coroutine::sched() }`.
SCoLoopSched(t) ==
    /\ SAtInstr(t, "loop_sched")
    /\ SchedFrame
    /\ sch' = Coroutine_yield_now(sch, t, "Suspended")

\* Scheduler::spawn in a closure: the child is made ready on this thread and
\* the caller yields.
SCoSpawn(t) ==
    /\ SAtInstr(t, "spawn")
    /\ sch.next_co \in SCoros
    /\ SchedFrame
    /\ LET c == SRunning(t)
           b == SBodies[sch.co[c].body][sch.co[c].pc].arg
       IN  sch' = Coroutine_yield_now(
                      [Scheduler_spawn(sch, t, b, FALSE) EXCEPT !.co[c].pc = @ + 1],
                      t, "Suspended")

\* Scheduler::current().wait_event(..) in a closure, as net/tcp.rs and
\* net/udp.rs call it.
SCoWait(t, ok) ==
    /\ SAtInstr(t, "wait")
    /\ \E k \in Tokens : sch.th[t].slabs[k] = 0
    /\ SchedFrame
    /\ sch' = wait_event(sch, t, ok)

\* panic!() in a closure: the stack unwinds.
SCoPanic(t) ==
    /\ SAtInstr(t, "panic")
    /\ SchedFrame
    /\ sch' = [sch EXCEPT !.co[SRunning(t)].failed = TRUE]

\* The closure given to run is left, by return or by unwinding: its Guard is
\* dropped.
SCoGuard(t) ==
    /\ SAtEnd(t)
    /\ sch.co[SRunning(t)].main
    /\ sch.co[SRunning(t)].pos = "body"
    /\ SchedFrame
    /\ sch' = [send_shutdown(sch) EXCEPT
                   !.co[SRunning(t)].pos = "unwound",
                   !.ev = SEv("guard", t, SRunning(t), "Running", "Running", "none")]

\* coroutine_initialize of coroutine.rs (lines 249-296): the closure is over,
\* the result is left in the environment and the coroutine yields for the
\* last time.
SCoEnd(t) ==
    /\ SAtEnd(t)
    /\ sch.co[SRunning(t)].main => sch.co[SRunning(t)].pos = "unwound"
    /\ SchedFrame
    /\ sch' = Coroutine_yield_now(
                  [sch EXCEPT !.th[t].running_state =
                                  IF sch.co[SRunning(t)].failed THEN Some("payload") ELSE None],
                  t, IF sch.co[SRunning(t)].failed THEN "Panicked" ELSE "Finished")

NextSched ==
    \/ SFill
    \/ SRun
    \/ \E t \in Threads : SWorkerNew(t)
    \/ \E b \in SBodyIds : SRunSpawn(b)
    \/ \E t \in Threads : SRecv(t)
    \/ \E t \in Threads : \E fire \in Tokens \cup {0 - 1} : SPoll(t, fire)
    \/ \E t \in Threads : SPrivate(t)
    \/ \E t \in Threads : SOwnSteal(t)
    \/ \E t \in Threads : SStealNeighbor(t)
    \/ \E t \in Threads : SResumeStolen(t)
    \/ \E t \in Threads : SSleep(t)
    \/ \E t \in Threads : SAfterResume(t)
    \/ \E t \in Threads : SExit(t)
    \/ \E t \in Threads : SCoSched(t)
    \/ \E t \in Threads : SCoLoopSched(t)
    \/ \E t \in Threads : SCoSpawn(t)
    \/ \E t \in Threads : \E ok \in BOOLEAN : SCoWait(t, ok)
    \/ \E t \in Threads : SCoPanic(t)
    \/ \E t \in Threads : SCoGuard(t)
    \/ \E t \in Threads : SCoEnd(t)

(***************************************************************************)
(* coroutine.rs: the reference-counted Handle (Arc<RefCell<Box<Coroutine>>>)*)
(* used directly, without the scheduler.  rc is a record: per coroutine    *)
(* the Coroutine struct (state, parent, saved_context,                     *)
(* current_stack_segment) and the execution context that lives on its      *)
(* stack (body, pc, pos, the locals of the body); per thread the           *)
(* Environment (stack_pool, current_running), the context that executes    *)
(* (run) and the Handles the thread's own code holds (held).               *)
(***************************************************************************)
RcCoros == 1..MaxCoros

\* The root coroutine of thread t (__main_coroutine of its Environment).
Main(t) == 0 - t

RcAll == RcCoros \cup {Main(t) : t \in Threads}

\* A null pointer, an empty Context, no Handle.
Null == 0

\* The closures given to Coroutine::spawn.
RcBodies == <<
    <<"guard", "sched">>,           \* 1 yields while a local with a destructor is live
    <<"block">>,                    \* 2 blocks
    <<"spawn_resume", "sched">>,    \* 3 spawns a child that holds Coroutine::current(), resumes it
    <<"resume_parent">>,            \* 4 the child: resumes the Handle it holds
    <<>>                            \* 5 returns at once
>>

RcChildBody == 4

RcRootBodies == {1, 2, 3, 5}

NoRcCoroutine ==
    [state |-> "Unspawned", parent |-> Null, saved_context |-> Null, segment |-> None,
     alive |-> FALSE, body |-> 5, pc |-> 1, pos |-> "none", from |-> Null,
     locals |-> 0, captured |-> Null, child |-> Null]

\* Environment::new, lines 420-437: the root coroutine is Running and its
\* parent points to itself.
MainCoroutine(i) ==
    [NoRcCoroutine EXCEPT !.state = "Running", !.parent = i, !.alive = TRUE, !.pos = "root"]

NoRcEv == [op |-> "none", t |-> 0, from |-> Null, to |-> Null, pre |-> "none", parent |-> Null]

RcInit ==
    [co |-> [i \in RcAll |-> IF i \in RcCoros THEN NoRcCoroutine ELSE MainCoroutine(i)],
     env |-> [t \in Threads |-> [stack_pool |-> <<>>, current_running |-> Main(t)]],
     run |-> [t \in Threads |-> Main(t)],
     held |-> [t \in Threads |-> {}],
     next_stack |-> 1,
     ev |-> NoRcEv]

\* Arc::strong_count: the Handles of c held by the code of the threads, by
\* the Environments, by closures and locals of bodies that have not ended,
\* and by the from_coro_hdl of the calls of resume that have not returned.
RcCount(s, c) ==
    Cardinality({t \in Threads : c \in s.held[t]})
    + Cardinality({t \in Threads : s.env[t].current_running = c})
    + Cardinality({d \in RcCoros : s.co[d].captured = c})
    + Cardinality({d \in RcCoros : s.co[d].child = c})
    + Cardinality({j \in RcAll : s.co[j].pos = "in_resume" /\ s.co[j].from = c})

\* What is left of a coroutine whose memory has been released.
DroppedCoroutine == [NoRcCoroutine EXCEPT !.state = "Dropped"]

\* impl Drop for Coroutine, lines 234-247, run by thread t: the stack goes to
\* the pool of t, nothing else is done with the coroutine.
rc_drop_coroutine(s, t, c) ==
    IF s.co[c].segment = None
    THEN [s EXCEPT !.co[c] = DroppedCoroutine]
    ELSE LET r == give_stack(s.env[t].stack_pool, s.co[c].segment[1], DefaultMaxCachedStacks)
         IN  [s EXCEPT !.co[c] = DroppedCoroutine,
                       !.env[t].stack_pool = r.pool]

\* Arc: thread t has dropped Handles; every coroutine left without a Handle
\* is dropped.
RECURSIVE rc_collect_from(_, _, _)
rc_collect_from(s, t, c) ==
    IF c > MaxCoros THEN s
    ELSE rc_collect_from(IF s.co[c].alive /\ RcCount(s, c) = 0
                         THEN rc_drop_coroutine(s, t, c) ELSE s,
                         t, c + 1)

rc_collect(s, t) == rc_collect_from(s, t, 1)

\* Context::swap has loaded the registers of execution context j on thread
\* t: j goes on from where it was.
rc_continue(s, t, j) ==
    CASE j = Null -> [s EXCEPT !.run[t] = Null]
      [] s.co[j].pos = "fresh" -> [s EXCEPT !.run[t] = j, !.co[j].pos = "body"]
      [] s.co[j].pos = "yielded" -> [s EXCEPT !.run[t] = j, !.co[j].pos = "body"]
      [] s.co[j].pos = "in_resume" ->
           \* Handle::resume lines 147-152
           [s EXCEPT !.run[t] = j,
                     !.env[t].current_running = s.co[j].from,
                     !.co[j].from = Null,
                     !.co[j].pos = IF j \in RcCoros THEN "body" ELSE "root",
                     !.co[j].pc = IF j \in RcCoros THEN @ + 1 ELSE @]
      [] OTHER -> [s EXCEPT !.run[t] = j]

\* A resume whose match also refuses State::Normal.
rc_resume_switches_refuses_normal(st) == st \in {"Suspended", "Blocked"}

\* The match at the head of Handle::resume, lines 122-126: does the call go
\* on to the switch?
rc_resume_switches(st) == st \notin {"Finished", "Running", "Panicked"}

\* Handle::resume, lines 121-155, called on c by the context executing on t.
rc_resume(s, t, c) ==
    LET j == s.run[t]
        from == s.env[t].current_running
        st == s.co[c].state
    IN  IF st = "Panicked"
        THEN [s EXCEPT !.run[t] = Null,
                       !.ev = [NoRcEv EXCEPT !.op = "fatal", !.t = t, !.from = from, !.to = c,
                                             !.pre = st]]
        ELSE IF ~rc_resume_switches(st)
        THEN [s EXCEPT !.co[j].pc = IF j \in RcCoros THEN @ + 1 ELSE @,
                       !.ev = NoRcEv]
        ELSE LET s1 == [s EXCEPT !.co[c].state = "Running",
                                 !.co[c].parent = from]
                 s2 == [s1 EXCEPT !.co[from].state = "Normal",
                                  !.co[from].saved_context = j,
                                  !.co[j].pos = "in_resume",
                                  !.co[j].from = from,
                                  !.env[t].current_running = c,
                                  !.ev = [op |-> "switch", t |-> t, from |-> from, to |-> c,
                                          pre |-> st, parent |-> s.co[c].parent]]
             IN  rc_continue(s2, t, s2.co[c].saved_context)

\* Coroutine::yield_now(state), lines 346-362, called by the context
\* executing on t.
rc_yield_now(s, t, st) ==
    LET j == s.run[t]
        from == s.env[t].current_running
        to == s.co[from].parent
        s1 == [s EXCEPT !.co[from].state = st,
                        !.co[from].saved_context = j,
                        !.co[j].pos = IF @ = "loop" THEN "loop" ELSE "yielded",
                        !.ev = NoRcEv]
    IN  rc_continue(s1, t, s1.co[to].saved_context)

\* Coroutine::spawn_opts, lines 319-336, on thread t: coroutine c, closure b
\* that captured the Handle cap.
rc_spawn(s, t, c, b, cap) ==
    LET r == take_stack(s.env[t].stack_pool, DefaultStackSize, s.next_stack)
    IN  [s EXCEPT !.env[t].stack_pool = r.pool,
                  !.next_stack = IF r.allocated THEN @ + 1 ELSE @,
                  !.co[c] = [NoRcCoroutine EXCEPT !.state = "Suspended",
                                                  !.saved_context = c,
                                                  !.segment = Some(r.stack),
                                                  !.alive = TRUE,
                                                  !.body = b,
                                                  !.pos = "fresh",
                                                  !.captured = cap]]

RcUnspawned(s) == {c \in RcCoros : s.co[c].state = "Unspawned"}

RcFresh(s) == CHOOSE c \in RcUnspawned(s) : \A d \in RcUnspawned(s) : c <= d

InitRc == rc = RcInit

\* The code of thread t itself is executing, outside any coroutine.
RcRootRuns(t) ==
    /\ rc.run[t] = Main(t)
    /\ rc.co[Main(t)].pos = "root"

\* let h = Coroutine::spawn(body b)
RcSpawn(t, b) ==
    /\ RcRootRuns(t)
    /\ RcUnspawned(rc) # {}
    /\ RcFrame
    /\ rc' = LET c == RcFresh(rc)
                 s == rc_spawn(rc, t, c, b, Null)
             IN  [s EXCEPT !.held[t] = @ \cup {c}, !.ev = NoRcEv]

\* h.resume()
RcResume(t, c) ==
    /\ RcRootRuns(t)
    /\ c \in rc.held[t]
    /\ RcFrame
    /\ rc' = rc_collect(rc_resume(rc, t, c), t)

\* drop(h)
RcDrop(t, c) ==
    /\ RcRootRuns(t)
    /\ c \in rc.held[t]
    /\ RcFrame
    /\ rc' = rc_collect([rc EXCEPT !.held[t] = @ \ {c},
                                   !.ev = NoRcEv], t)

\* The Handle is Send: thread t hands a coroutine that is not finished on
\* to the next thread.
RcSend(t, u, c) ==
    /\ RcRootRuns(t)
    /\ c \in rc.held[t]
    /\ u = t + 1
    /\ rc.co[c].state # "Finished"
    /\ RcFrame
    /\ rc' = [rc EXCEPT !.held[t] = @ \ {c},
                        !.held[u] = @ \cup {c},
                        !.ev = NoRcEv]

\* A coroutine executes on thread t at an instruction of its body.
RcBodyRuns(t) ==
    /\ rc.run[t] \in RcCoros
    /\ rc.co[rc.run[t]].pos = "body"

RcInstr(t) ==
    LET j == rc.run[t]
    IN  IF rc.co[j].pc <= Len(RcBodies[rc.co[j].body])
        THEN RcBodies[rc.co[j].body][rc.co[j].pc] ELSE "end"

\* let _guard = Guard { .. }
RcGuard(t) ==
    /\ RcBodyRuns(t)
    /\ RcInstr(t) = "guard"
    /\ RcFrame
    /\ rc' = [rc EXCEPT !.co[rc.run[t]].locals = @ + 1,
                        !.co[rc.run[t]].pc = @ + 1,
                        !.ev = NoRcEv]

\* Coroutine::sched() / Coroutine::block()
RcYield(t) ==
    /\ RcBodyRuns(t)
    /\ RcInstr(t) \in {"sched", "block"}
    /\ RcFrame
    /\ rc' = rc_collect(rc_yield_now([rc EXCEPT !.co[rc.run[t]].pc = @ + 1], t,
                                     IF RcInstr(t) = "block" THEN "Blocked" ELSE "Suspended"),
                        t)

\* let me = Coroutine::current(); Coroutine::spawn(move || { me.resume() }).resume()
RcSpawnResume(t) ==
    /\ RcBodyRuns(t)
    /\ RcInstr(t) = "spawn_resume"
    /\ RcUnspawned(rc) # {}
    /\ RcFrame
    /\ rc' = LET c == RcFresh(rc)
                 s == rc_spawn(rc, t, c, RcChildBody, rc.env[t].current_running)
             IN  rc_collect(rc_resume([s EXCEPT !.co[rc.run[t]].child = c], t, c), t)

\* me.resume() in the child
RcResumeParent(t) ==
    /\ RcBodyRuns(t)
    /\ RcInstr(t) = "resume_parent"
    /\ RcFrame
    /\ rc' = rc_collect(rc_resume(rc, t, rc.co[rc.run[t]].captured), t)

\* The closure returns: it is consumed, its locals and captured Handles are
\* dropped, and coroutine_initialize (lines 250-294) yields with Finished.
RcEnd(t) ==
    /\ RcBodyRuns(t)
    /\ RcInstr(t) = "end"
    /\ RcFrame
    /\ rc' = LET j == rc.run[t]
                 s == [rc EXCEPT !.co[j].locals = 0,
                                 !.co[j].body = Null,
                                 !.co[j].pc = 1,
                                 !.co[j].captured = Null,
                                 !.co[j].child = Null,
                                 !.co[j].pos = "loop"]
             IN  rc_collect(rc_yield_now(s, t, "Finished"), t)

\* coroutine_initialize, lines 291-293: loop { Coroutine::yield_now(state) }
\* when the context is switched into again.
RcLoop(t) ==
    /\ rc.run[t] \in RcCoros
    /\ rc.co[rc.run[t]].pos = "loop"
    /\ RcFrame
    /\ rc' = rc_collect(rc_yield_now(rc, t, "Finished"), t)

NextRc ==
    \/ \E t \in Threads, b \in RcRootBodies : RcSpawn(t, b)
    \/ \E t \in Threads, c \in RcCoros : RcResume(t, c)
    \/ \E t \in Threads, c \in RcCoros : RcDrop(t, c)
    \/ \E t, u \in Threads, c \in RcCoros : RcSend(t, u, c)
    \/ \E t \in Threads : RcGuard(t)
    \/ \E t \in Threads : RcYield(t)
    \/ \E t \in Threads : RcSpawnResume(t)
    \/ \E t \in Threads : RcResumeParent(t)
    \/ \E t \in Threads : RcEnd(t)
    \/ \E t \in Threads : RcLoop(t)

(***************************************************************************)
(* sync/mutex.rs and sync/spinlock.rs: one Mutex used by the root and the  *)
(* coroutines of one thread.  mx is a record: the flag of the SpinLock,    *)
(* the wait_list, the holders of a LockGuard, and of the coroutines what   *)
(* lock and unlock use: state, the stack of running coroutines, and where  *)
(* each one stands (at: "code", "in_lock" inside the sched() of lock,      *)
(* "in_unlock" inside the resume of unlock).                               *)
(***************************************************************************)
\* The closures that use the Mutex.
MxBodies == <<
    <<"lock", "unlock">>,              \* 1 test_mutex_basic: let mut guard = lock.lock(); *guard += 1;
    <<"lock", "sched", "unlock">>      \* 2 yields while it holds the guard
>>

MxInit ==
    [flag |-> FALSE,
     wait_list |-> <<>>,
     guards |-> {},
     state |-> [i \in Ids |-> IF i = Root THEN "Running" ELSE "Unspawned"],
     body |-> [i \in Coros |-> 1],
     pc |-> [i \in Coros |-> 1],
     at |-> [i \in Ids |-> "code"],
     res |-> "Ok",
     coroutine_stack |-> <<Root>>]

\* SpinLock::try_lock, line 38: compare_and_swap(false, true).
try_lock(s) == [ok |-> ~s.flag, s |-> [s EXCEPT !.flag = TRUE]]

\* SpinLock::unlock, lines 45-47.
spin_unlock(s) == [s EXCEPT !.flag = FALSE]

\* LockGuard::new, lines 96-101: x holds a guard of the Mutex.
LockGuard_new(s, x) ==
    [s EXCEPT !.guards = @ \cup {x},
              !.at[x] = "code",
              !.pc = IF x = Root THEN @ ELSE [@ EXCEPT ![x] = @ + 1]]

\* The running coroutine x is left: control is back in the resume that
\* switched into it, which returns res.
mx_leave(s, x, st, res) ==
    [s EXCEPT !.state[x] = st,
              !.coroutine_stack = Front(@),
              !.res = res]

\* x panics: the root ends the thread, a coroutine becomes Panicked and its
\* resumer gets the Err.
mx_panic(s, x) ==
    IF x = Root
    THEN [s EXCEPT !.state[x] = "Panicked", !.at[x] = "code"]
    ELSE mx_leave([s EXCEPT !.at[x] = "code"], x, "Panicked", "Err")

\* coroutine::sched() called by x: in the root it returns at once
\* (yield_now, coroutine_unique.rs lines 356-362).
mx_sched_in_lock(s, x) ==
    IF Len(s.coroutine_stack) = 1
    THEN LockGuard_new(s, x)
    ELSE mx_leave([s EXCEPT !.at[x] = "in_lock"], x, "Suspended", "Ok")

\* Mutex::lock, lines 50-61, called by x.
mx_lock(s, x) ==
    LET r == try_lock(s)
    IN  IF r.ok
        THEN LockGuard_new(r.s, x)
        ELSE mx_sched_in_lock([s EXCEPT !.wait_list = Append(@, x)], x)

\* Mutex::unlock, lines 71-84, called by the drop of the LockGuard of x.
mx_unlock(s, x) ==
    LET s1 == [spin_unlock(s) EXCEPT !.guards = @ \ {x}]
        done == [s1 EXCEPT !.pc = IF x = Root THEN @ ELSE [@ EXCEPT ![x] = @ + 1]]
    IN  IF s.wait_list = <<>>
        THEN done
        ELSE LET hdl == Head(s.wait_list)
                 s2 == [s1 EXCEPT !.wait_list = Tail(@)]
                 s3 == [done EXCEPT !.wait_list = Tail(@)]
             IN  CASE resume_check(s.state[hdl]) = "ok" -> s3
                   [] resume_check(s.state[hdl]) = "switch" ->
                        [s2 EXCEPT !.state[hdl] = "Running",
                                   !.state[x] = "Normal",
                                   !.coroutine_stack = Append(@, hdl),
                                   !.at[x] = "in_unlock"]
                   [] OTHER -> mx_panic(s2, x)

InitMx == mx = MxInit

\* The code of the thread itself runs, outside any coroutine.
MxRootRuns ==
    /\ mx.coroutine_stack = <<Root>>
    /\ mx.at[Root] = "code"
    /\ mx.state[Root] # "Panicked"

\* Coroutine c runs at instruction op of its body ("end" after the last one).
MxAt(c, op) ==
    /\ Last(mx.coroutine_stack) = c
    /\ mx.at[c] = "code"
    /\ op = IF mx.pc[c] <= Len(MxBodies[mx.body[c]])
            THEN MxBodies[mx.body[c]][mx.pc[c]] ELSE "end"

\* let c = spawn(body b)
MxSpawn(c, b) ==
    /\ MxRootRuns
    /\ mx.state[c] = "Unspawned"
    /\ \A d \in Coros : d < c => mx.state[d] # "Unspawned"
    /\ MxFrame
    /\ mx' = [mx EXCEPT !.state[c] = "Suspended", !.body[c] = b]

\* c.resume() by the root, for any coroutine that can be switched into, be it
\* on the wait_list or not.
MxResume(c) ==
    /\ MxRootRuns
    /\ mx.state[c] # "Unspawned"
    /\ resume_check(mx.state[c]) = "switch"
    /\ MxFrame
    /\ mx' = [mx EXCEPT !.state[c] = "Running",
                        !.state[Root] = "Normal",
                        !.coroutine_stack = Append(@, c)]

\* let guard = lock.lock() in the root
MxRootLock ==
    /\ MxRootRuns
    /\ Root \notin mx.guards
    /\ MxFrame
    /\ mx' = mx_lock(mx, Root)

\* drop(guard) in the root
MxRootUnlock ==
    /\ MxRootRuns
    /\ Root \in mx.guards
    /\ MxFrame
    /\ mx' = mx_unlock(mx, Root)

\* let guard = lock.lock() in coroutine c
MxLock(c) ==
    /\ MxAt(c, "lock")
    /\ MxFrame
    /\ mx' = mx_lock(mx, c)

\* Coroutine c is resumed inside lock: sched() returns, lock returns the
\* guard (line 60).
MxLockWakes(c) ==
    /\ Last(mx.coroutine_stack) = c
    /\ mx.at[c] = "in_lock"
    /\ MxFrame
    /\ mx' = LockGuard_new(mx, c)

\* sched() in the body of c
MxSched(c) ==
    /\ MxAt(c, "sched")
    /\ MxFrame
    /\ mx' = mx_leave([mx EXCEPT !.pc[c] = @ + 1], c, "Suspended", "Ok")

\* The guard of c is dropped.
MxUnlock(c) ==
    /\ MxAt(c, "unlock")
    /\ MxFrame
    /\ mx' = mx_unlock(mx, c)

\* The resume of unlock has returned to x: unwrap (line 80).
MxUnlockReturns(x) ==
    /\ Last(mx.coroutine_stack) = x
    /\ mx.at[x] = "in_unlock"
    /\ MxFrame
    /\ mx' = IF mx.res = "Err"
             THEN mx_panic(mx, x)
             ELSE [mx EXCEPT !.at[x] = "code",
                             !.pc = IF x = Root THEN @ ELSE [@ EXCEPT ![x] = @ + 1]]

\* The body of c returns.
MxEnd(c) ==
    /\ MxAt(c, "end")
    /\ MxFrame
    /\ mx' = mx_leave(mx, c, "Finished", "Ok")

NextMx ==
    \/ \E c \in Coros, b \in DOMAIN MxBodies : MxSpawn(c, b)
    \/ \E c \in Coros : MxResume(c)
    \/ MxRootLock
    \/ MxRootUnlock
    \/ \E c \in Coros : MxLock(c)
    \/ \E c \in Coros : MxLockWakes(c)
    \/ \E c \in Coros : MxSched(c)
    \/ \E c \in Coros : MxUnlock(c)
    \/ \E x \in Ids : MxUnlockReturns(x)
    \/ \E c \in Coros : MxEnd(c)

(***************************************************************************)
(* Specifications, one per subsystem.                                      *)
(***************************************************************************)
\* The asymmetric coroutine of the other specifications: spawned, never used.
AsymIdle == asym = AsymSpawned(1)

\* The clonable coroutine of the other specifications: spawned, never used.
ClonIdle == clon = ClonSpawned(1)

\* The scheduler of the other specifications: never started.
SchedIdle == sch = SchedInit

RcIdle == rc = RcInit

MxIdle == mx = MxInit

Init == InitPool /\ InitUniq /\ AsymIdle /\ ClonIdle /\ SchedIdle /\ RcIdle /\ MxIdle

\* The pool of the unique-handle model is uniq.stack_pool: RUST_MAX_CACHED_STACKS unset.
InitU == Init /\ env_var = None

SpecPool == Init /\ [][NextPool]_vars

SpecUniq == InitU /\ [][NextUniq]_vars

\* The thread with coroutines that yield and return (and one that spawns and
\* joins such a child), and the thread keeps executing: no step that can be
\* taken is put off for ever.
SpecJoinFair == InitU /\ [][NextJoin]_vars /\ WF_vars(NextJoin)

InitA == InitPool /\ env_var = None /\ InitUniq /\ InitAsym /\ ClonIdle /\ SchedIdle /\ RcIdle /\ MxIdle

SpecAsym == InitA /\ [][NextAsym]_vars

InitC == InitPool /\ env_var = None /\ InitUniq /\ AsymIdle /\ InitClon /\ SchedIdle /\ RcIdle /\ MxIdle

SpecClonable == InitC /\ [][NextClon]_vars

InitS == InitPool /\ env_var = None /\ InitUniq /\ AsymIdle /\ ClonIdle /\ InitSched /\ RcIdle /\ MxIdle

SpecSched == InitS /\ [][NextSched]_vars

InitR == InitPool /\ env_var = None /\ InitUniq /\ AsymIdle /\ ClonIdle /\ SchedIdle /\ InitRc /\ MxIdle

SpecRc == InitR /\ [][NextRc]_vars

InitM == InitPool /\ env_var = None /\ InitUniq /\ AsymIdle /\ ClonIdle /\ SchedIdle /\ RcIdle /\ InitMx

SpecMutex == InitM /\ [][NextMx]_vars

\* The steps of OS thread t once Scheduler::run has been called.
SThread(t) ==
    \/ (t = MainThread /\ \E b \in SBodyIds : SRunSpawn(b))
    \/ SWorkerNew(t) \/ SRecv(t) \/ (\E fire \in Tokens \cup {0 - 1} : SPoll(t, fire))
    \/ SPrivate(t) \/ SOwnSteal(t) \/ SStealNeighbor(t) \/ SResumeStolen(t) \/ SSleep(t)
    \/ SAfterResume(t) \/ SExit(t)
    \/ SCoSched(t) \/ SCoLoopSched(t) \/ SCoSpawn(t) \/ (\E ok \in BOOLEAN : SCoWait(t, ok))
    \/ SCoPanic(t) \/ SCoGuard(t) \/ SCoEnd(t)

\* The scheduler with every OS thread executing: a thread that can take a
\* step is not held back for ever.
SpecSchedFair == InitS /\ [][NextSched]_vars /\ \A t \in Threads : WF_vars(SThread(t))

(***************************************************************************)
(* Claims about the stack pool (checked under SpecPool).                   *)
(***************************************************************************)
\* The value max_cached_stacks() returns once AMT is initialised.
MaxCachedNow == AMT - 1

\* C7: after any sequence of take_stack/give_stack calls the pool holds at
\* most max_cached_stacks() stacks, and give_stack caches the stack only when
\* the pool held fewer than that maximum.
C7_PoolNeverExceedsMax ==
    /\ AMT # 0 => Len(stacks) <= MaxCachedNow
    /\ (pool_op.op = "give" /\ pool_op.cached) => Len(pool_op.before) < pool_op.max

\* The take_stack(n) just done directly follows a give_stack(s) with n <= capacity of s.
TakeAfterGive ==
    /\ pool_op.op = "take"
    /\ pool_op.prev = "give"
    /\ pool_op.n <= pool_op.prev_stack.min_size

\* No cached stack other than s could have served the request.
NoOtherFits ==
    \A i \in DOMAIN pool_op.before :
        pool_op.before[i] # pool_op.prev_stack => pool_op.before[i].min_size < pool_op.n

\* What C8 promises of such a take_stack.
ReusesGiven ==
    /\ ~pool_op.allocated
    /\ NoOtherFits => pool_op.stack = pool_op.prev_stack

\* C8 as stated: for any pool state, give_stack(s) then take_stack(n) with
\* n <= capacity(s) returns a cached stack without allocating, and s itself
\* when no other cached stack has capacity >= n.
C8_Original == TakeAfterGive => ReusesGiven

\* C8 amended: the same, provided give_stack(s) cached s, that is, the pool
\* was not already full when s was given (a full pool frees s instead).
C8_ReuseAfterCachedGive == (TakeAfterGive /\ pool_op.prev_cached) => ReusesGiven

\* C8 witness: a cached give, then a take that only the given stack can serve
\* although another stack is cached, and that returns the given stack.
C8_Witness ==
    /\ TakeAfterGive
    /\ pool_op.prev_cached
    /\ Len(pool_op.before) >= 2
    /\ NoOtherFits
    /\ pool_op.stack = pool_op.prev_stack

\* C9: take_stack(n) returns a stack with min_size >= n; it allocates (a stack
\* of min_size exactly n) only when no cached stack has min_size >= n; when it
\* returns a cached stack, exactly that stack leaves the pool.
C9_TakeStack ==
    pool_op.op = "take" =>
        /\ pool_op.stack.min_size >= pool_op.n
        /\ pool_op.allocated =>
              /\ \A i \in DOMAIN pool_op.before : pool_op.before[i].min_size < pool_op.n
              /\ pool_op.stack.min_size = pool_op.n
        /\ ~pool_op.allocated =>
              /\ pool_op.stack \in Range(pool_op.before)
              /\ Range(stacks) = Range(pool_op.before) \ {pool_op.stack}
              /\ Len(stacks) = Len(pool_op.before) - 1

\* C9 witness: a take served from a cache of several stacks, not by the last one.
C9_Witness ==
    /\ pool_op.op = "take"
    /\ ~pool_op.allocated
    /\ Len(pool_op.before) >= 2
    /\ pool_op.stack # Last(pool_op.before)

(***************************************************************************)
(* Claims about the unique-handle coroutine (checked under SpecUniq).      *)
(***************************************************************************)
\* The last step was the return of a call that had switched into its target.
ReturnedFromSwitch == uniq.ev.op = "ret" /\ uniq.ev.switched

\* C1: when a coroutine's body panics during a resume, the panic is caught at
\* the trampoline: the coroutine is Panicked, the resume (and a join built on
\* it) that ran it returns Err with that payload, and the resumer goes on
\* running, not panicked itself.
C1_PanicContained ==
    /\ \A c \in Coros : uniq.payload[c] # None => uniq.state[c] = "Panicked"
    /\ (ReturnedFromSwitch /\ uniq.payload[uniq.ev.target] # None) =>
          /\ uniq.ev.res = Err(uniq.payload[uniq.ev.target][1])
          /\ ~uniq.dead
          /\ current(uniq) = uniq.ev.ctx
          /\ uniq.state[uniq.ev.ctx] \in {"Running", "Normal"}
          /\ uniq.running_state = None

\* C1 witness: inside a coroutine, a join of a child whose body panicked has
\* returned the child's payload.
C1_Witness ==
    /\ ReturnedFromSwitch
    /\ uniq.ev.fn = "join"
    /\ uniq.ev.ctx # Root
    /\ uniq.payload[uniq.ev.target] # None
    /\ uniq.ev.res = Err(uniq.payload[uniq.ev.target][1])

\* The body `e1; sched(); e2` of test_coroutine_yield.
YieldBody == 1

\* The effects coroutine c has performed, in order.
EffectsOf(c) ==
    LET mine == SelectSeq(uniq.log, LAMBDA e : e[1] = c)
    IN  [i \in 1..Len(mine) |-> mine[i][2]]

\* A resume of c has switched into it and has not returned yet.
InResume(c) == \E x \in Ids : uniq.call[x].at = "swap" /\ uniq.call[x].target = c

\* C3: for the body e1; sched(); e2, the first resume runs exactly e1 and
\* returns with the coroutine Suspended, the second runs exactly e2 and
\* returns with it Finished, and any further resume runs nothing.
C3_YieldOrdering ==
    /\ \A c \in Coros : (uniq.body[c] = YieldBody /\ ~InResume(c)) =>
          CASE uniq.nsw[c] = 0 -> EffectsOf(c) = <<>> /\ uniq.state[c] = "Suspended"
            [] uniq.nsw[c] = 1 -> EffectsOf(c) = <<1>> /\ uniq.state[c] = "Suspended"
            [] uniq.nsw[c] = 2 -> EffectsOf(c) = <<1, 2>> /\ uniq.state[c] = "Finished"
            [] OTHER -> FALSE
    /\ (uniq.ev.op \in {"switch", "ret", "fatal"} /\ uniq.ev.fn = "resume"
          /\ uniq.body[uniq.ev.target] = YieldBody /\ uniq.ev.pre = "Finished") =>
          /\ uniq.ev.op = "ret"
          /\ ~uniq.ev.switched
          /\ EffectsOf(uniq.ev.target) = <<1, 2>>

\* C3 witness: a third resume of such a coroutine has returned.
C3_Witness ==
    /\ uniq.ev.op = "ret"
    /\ uniq.ev.fn = "resume"
    /\ uniq.body[uniq.ev.target] = YieldBody
    /\ uniq.nsw[uniq.ev.target] = 2
    /\ uniq.ev.pre = "Finished"

\* The step is a call of Handle::resume on a coroutine whose state was st.
ResumeCalledIn(st) ==
    /\ uniq'.ev # uniq.ev
    /\ uniq'.ev.op \in {"switch", "ret", "fatal"}
    /\ uniq'.ev.fn = "resume"
    /\ uniq'.ev.pre = st

\* C4: resume on a Finished coroutine returns Ok immediately, switches no
\* context and changes no coroutine state and no entry of the active stack.
C4_ResumeFinishedNoOp ==
    [][ResumeCalledIn("Finished") =>
          /\ uniq'.ev.op = "ret"
          /\ uniq'.ev.res = Ok
          /\ ~uniq'.ev.switched
          /\ uniq'.state = uniq.state
          /\ uniq'.coroutine_stack = uniq.coroutine_stack
          /\ uniq'.ctx = uniq.ctx
          /\ uniq'.running_state = uniq.running_state]_vars

\* C4 witness: a resume of a Finished coroutine has returned Ok.
C4_Witness ==
    /\ uniq.ev.op = "ret"
    /\ uniq.ev.fn = "resume"
    /\ uniq.ev.via = "resume"
    /\ uniq.ev.pre = "Finished"
    /\ uniq.ev.res = Ok

\* C5: resume on a Panicked coroutine never switches into it and returns no
\* Result: it panics in the caller (the thread dies when the caller is the
\* root; a calling coroutine unwinds with that panic).
C5_ResumePanickedFatal ==
    (uniq.ev.op \in {"switch", "ret", "fatal"} /\ uniq.ev.fn = "resume"
        /\ uniq.ev.pre = "Panicked") =>
        /\ uniq.ev.op = "fatal"
        /\ uniq.ev.res = None
        /\ uniq.ctx[uniq.ev.target] # "live"
        /\ uniq.ev.target \notin Range(uniq.coroutine_stack)
        /\ IF uniq.ev.ctx = Root
           THEN uniq.dead
           ELSE uniq.payload[uniq.ev.ctx] =
                    Some([by |-> uniq.ev.ctx, msg |-> "resume a panicked coroutine"])

\* C5 witness: a coroutine resumed its panicked child and panicked for it.
C5_Witness ==
    /\ uniq.ev.op = "fatal"
    /\ uniq.ev.pre = "Panicked"
    /\ uniq.ev.ctx # Root
    /\ uniq.state[uniq.ev.ctx] = "Panicked"

\* Handle::join has just called resume on a coroutine it found in state ev.pre.
JoinCalledResume ==
    /\ uniq.ev.via = "join"
    /\ \/ uniq.ev.op \in {"switch", "fatal"}
       \/ uniq.ev.op = "ret" /\ uniq.ev.fn = "resume" /\ ~uniq.ev.switched

\* C10 as stated: join resumes the coroutine only while it is Suspended (and
\* stops without resuming when it is Blocked, Finished or Panicked).
C10_Original == JoinCalledResume => uniq.ev.pre = "Suspended"

\* C10 amended: join resumes the coroutine only while it is Suspended or
\* Blocked; when it finds it Finished or Panicked it stops without resuming,
\* and it returns Ok only in a state it does not resume.
C10_JoinResumesSuspendedOrBlocked ==
    /\ JoinCalledResume => uniq.ev.pre \in {"Suspended", "Blocked"}
    /\ (uniq.ev.op = "ret" /\ uniq.ev.fn = "join" /\ uniq.ev.res = Ok) =>
          uniq.ev.pre \notin {"Suspended", "Blocked"}

\* C10 witness: a join switched into a Blocked coroutine.
C10_Witness ==
    /\ JoinCalledResume
    /\ uniq.ev.op = "switch"
    /\ uniq.ev.pre = "Blocked"

\* The number of sched() calls in closure b.
SchedCount(b) == Cardinality({i \in 1..Len(Bodies[b]) : Bodies[b][i].op = "sched"})

\* Context x is inside a join of a handle that was freshly spawned when the
\* join began, and whose body only yields with sched() and returns.
JoiningFresh(x) ==
    /\ uniq.call[x].fn = "join"
    /\ uniq.call[x].fresh
    /\ YieldsThenReturns(uniq.body[uniq.call[x].target])

\* A join of a fresh coroutine whose body calls sched() k times and returns
\* never calls resume more than k+1 times, and when it returns it has called
\* resume exactly k+1 times, each of them switched into the coroutine, the
\* result is Ok(()) and the coroutine is Finished.
JoinResumesKPlusOne ==
    [][\A x \in Ids :
          JoiningFresh(x) =>
             LET h == uniq.call[x].target
                 k == SchedCount(uniq.body[h])
             IN  /\ uniq'.call[x].n <= k + 1
                 /\ (uniq.call[x].at = "loop" /\ uniq'.call[x] = NoCall) =>
                       /\ uniq.call[x].n = k + 1
                       /\ uniq'.nsw[h] = k + 1
                       /\ uniq'.ev.op = "ret"
                       /\ uniq'.ev.fn = "join"
                       /\ uniq'.ev.res = Ok
                       /\ uniq'.state[h] = "Finished"]_vars

\* C11: a join on the freshly spawned Handle of a coroutine whose body calls
\* sched() exactly k times and then returns terminates: it returns Ok(())
\* after exactly k+1 resumes and leaves the coroutine Finished.
C11_JoinTerminates ==
    /\ JoinResumesKPlusOne
    /\ \A x \in Ids :
          JoiningFresh(x) ~>
              (uniq.ev.op = "ret" /\ uniq.ev.fn = "join" /\ uniq.ev.ctx = x
                  /\ uniq.ev.res = Ok /\ uniq.state[uniq.ev.target] = "Finished")

\* C11 witness: the join of a fresh coroutine that yields twice has resumed
\* it three times and now finds it Finished.
C11_Witness ==
    \E x \in Ids :
        /\ JoiningFresh(x)
        /\ SchedCount(uniq.body[uniq.call[x].target]) = 2
        /\ uniq.call[x].at = "loop"
        /\ uniq.call[x].n = 3
        /\ uniq.state[uniq.call[x].target] = "Finished"

\* The effects of c and its child, in the order they were performed.
FamilyLog(c) ==
    SelectSeq(uniq.log, LAMBDA e : e[1] = c \/ (uniq.child[c] # 0 /\ e[1] = uniq.child[c]))

\* s is a prefix of t.
IsPrefix(s, t) == Len(s) <= Len(t) /\ \A i \in 1..Len(s) : s[i] = t[i]

\* C12: for an outer coroutine that performs effect a, spawns and joins a
\* child performing b, then goes on: a comes before b, b comes before
\* anything the outer coroutine does after its join, and a join of the outer
\* coroutine returns Ok only when all these effects have happened.
C12_NestedJoinOrdering ==
    \A c \in Coros :
        uniq.body[c] = NestedBody =>
            LET d == uniq.child[c]
                whole == <<<<c, 1>>, <<d, 1>>, <<d, 2>>, <<c, 3>>>>
            IN  /\ IsPrefix(FamilyLog(c), whole)
                /\ (uniq.ev.op = "ret" /\ uniq.ev.fn = "join" /\ uniq.ev.target = c
                       /\ uniq.ev.res = Ok) =>
                       FamilyLog(c) = whole

\* C12 witness: the root's join of the outer coroutine has returned Ok with
\* the four effects in order.
C12_Witness ==
    \E c \in Coros :
        /\ uniq.body[c] = NestedBody
        /\ uniq.ev.op = "ret" /\ uniq.ev.fn = "join" /\ uniq.ev.target = c
        /\ uniq.ev.ctx = Root
        /\ uniq.ev.res = Ok
        /\ uniq.ev.switched
        /\ Len(FamilyLog(c)) = 4

\* The step is a yield of the running coroutine x: sched(), block(), or the
\* yield of the trampoline once the body has ended (returned or panicked).
YieldsIn(x) ==
    /\ x = current(uniq)
    /\ x # Root
    /\ uniq' # uniq
    /\ uniq'.ev.ctx = x
    /\ uniq'.ev.op \in {"yield", "finish", "panic", "fatal"}

\* The state tag a yield step of x carries.
YieldTag(x) ==
    CASE uniq'.ev.op = "yield" -> uniq'.ev.pre
      [] uniq'.ev.op = "finish" -> IF uniq'.payload[x] # None THEN "Panicked" ELSE "Finished"
      [] OTHER -> "Panicked"

\* C13: when the running coroutine yields, it is removed from the active
\* stack with the state tag it yielded with, and control goes to the previous
\* top of the active stack, inside the resume call that switched into the
\* yielding coroutine.
C13_YieldReturnsToResumer ==
    [][\A x \in Coros :
          YieldsIn(x) =>
             LET parent == uniq.coroutine_stack[Len(uniq.coroutine_stack) - 1]
             IN  /\ uniq'.coroutine_stack = Front(uniq.coroutine_stack)
                 /\ current(uniq') = parent
                 /\ x \notin Range(uniq'.coroutine_stack)
                 /\ uniq'.state[x] = YieldTag(x)
                 /\ uniq'.ctx[x] = "saved"
                 /\ uniq'.ctx[parent] = "live"
                 /\ uniq'.call[parent].at = "swap"
                 /\ uniq'.call[parent].target = x
                 /\ uniq'.call[parent] = uniq.call[parent]]_vars

\* C13 witness: a child has yielded with sched() into the join of its
\* parent coroutine, two levels down the active stack.
C13_Witness ==
    /\ uniq.ev.op = "yield"
    /\ uniq.ev.pre = "Suspended"
    /\ uniq.ev.switched
    /\ Len(uniq.coroutine_stack) = 2
    /\ current(uniq) # Root
    /\ uniq.call[current(uniq)].at = "swap"
    /\ uniq.call[current(uniq)].target = uniq.ev.ctx
    /\ uniq.state[uniq.ev.ctx] = "Suspended"

\* The effects of c in the log after the step.
EffectsAfter(c) == SelectSeq(uniq'.log, LAMBDA e : e[1] = c)

\* C14: once a coroutine is Finished or Panicked, no step (a resume, a join,
\* a sched or a block by anyone) changes its state, switches into it, puts it
\* on the active stack or runs any code of its body.
C14_TerminalStates ==
    [][\A c \in Coros :
          uniq.state[c] \in {"Finished", "Panicked"} =>
             /\ uniq'.state[c] = uniq.state[c]
             /\ uniq'.nsw[c] = uniq.nsw[c]
             /\ uniq'.pc[c] = uniq.pc[c]
             /\ uniq'.phase[c] = uniq.phase[c]
             /\ uniq'.ctx[c] = uniq.ctx[c]
             /\ c \notin Range(uniq'.coroutine_stack)
             /\ EffectsAfter(c) = SelectSeq(uniq.log, LAMBDA e : e[1] = c)]_vars

\* C14 witness: a join called on a Panicked coroutine has returned and the
\* coroutine is still Panicked.
C14_Witness ==
    /\ uniq.ev.op = "ret"
    /\ uniq.ev.fn = "join"
    /\ uniq.ev.pre = "Panicked"
    /\ ~uniq.ev.switched
    /\ uniq.state[uniq.ev.target] = "Panicked"


\* C25: whenever a coroutine that is executing calls resume on its own
\* Handle, at any point of its body, also after it has resumed a child and
\* got control back, the call returns Ok at once: no context switch, and no
\* change to any state, to any saved context or to the active stack.
C25_SelfResumeIsNoOp ==
    [][\A x \in Coros :
          (CoAt(x, "resume") /\ Target(x, Instr(x).arg) = x) =>
              /\ uniq'.ev = Ev("ret", x, x, "resume", "resume", uniq.state[x], Ok, FALSE)
              /\ uniq'.state = uniq.state
              /\ uniq'.ctx = uniq.ctx
              /\ uniq'.coroutine_stack = uniq.coroutine_stack
              /\ uniq'.pc[x] = uniq.pc[x] + 1]_vars

\* C26: sched() or block() called when no coroutine is active (only the root
\* is on the coroutine_stack) returns at once: no context switch and no
\* change of any state; the root entry is never popped and the
\* coroutine_stack is never empty.
C26_YieldInRootReturns ==
    /\ [](Len(uniq.coroutine_stack) >= 1 /\ uniq.coroutine_stack[1] = Root)
    /\ [](\A i \in 2..Len(uniq.coroutine_stack) : uniq.coroutine_stack[i] # Root)
    /\ [][(/\ uniq.coroutine_stack = <<Root>>
           /\ uniq'.ev # uniq.ev
           /\ uniq'.ev.op = "yield")
          => /\ uniq' = [uniq EXCEPT !.ev = Ev("yield", Root, Root, "yield_now", "yield_now",
                                                uniq'.ev.pre, None, FALSE)]
             /\ uniq'.ev.pre \in {"Suspended", "Blocked"}]_vars

\* The root has called block() while it owns a coroutine that is suspended
\* in its body; the coroutine is still Suspended and only the root is on the
\* coroutine_stack.
C26_Witness ==
    /\ uniq.ev = Ev("yield", Root, Root, "yield_now", "yield_now", "Blocked", None, FALSE)
    /\ uniq.coroutine_stack = <<Root>>
    /\ \E c \in Coros : uniq.state[c] = "Suspended" /\ uniq.pc[c] > 1

\* The contexts whose registers are the ones of the executing thread.
LiveContexts(s) == {i \in Ids : s.ctx[i] = "live"}

\* C31: across every sequence of spawn, resume, join, sched and block calls
\* on one thread, Context::swap is only invoked with an incoming context
\* that was built by Context::new for a coroutine that has not started, or
\* was saved by an earlier swap out of a coroutine that is not executing.
C31_SwapIntoInitializedContext ==
    /\ [][uniq'.coroutine_stack # uniq.coroutine_stack =>
            LET out == Last(uniq.coroutine_stack)
                in == Last(uniq'.coroutine_stack)
            IN  /\ uniq.ctx[in] \in {"new", "saved"}
                /\ uniq.ctx[in] = "new" => (uniq.phase[in] = "fresh" /\ uniq.nsw[in] = 0)
                /\ in # out
                /\ in \notin Range(uniq.coroutine_stack) \/ in = Last(Front(uniq.coroutine_stack))
                /\ uniq'.ctx = [[uniq.ctx EXCEPT ![out] = "saved"] EXCEPT ![in] = "live"]]_vars
    /\ [][uniq'.ctx # uniq.ctx =>
            \/ uniq'.coroutine_stack # uniq.coroutine_stack
            \/ \E c \in Coros : /\ uniq.ctx[c] = "empty"
                                 /\ uniq'.ctx = [uniq.ctx EXCEPT ![c] = "new"]]_vars
    /\ [](LiveContexts(uniq) \subseteq {current(uniq)})

\* A coroutine that yielded and was resumed again is executing: the second
\* switch into it loaded the context its yield had saved.
C31_Witness ==
    \E c \in Coros :
        /\ current(uniq) = c
        /\ uniq.nsw[c] = 2
        /\ uniq.ctx[c] = "live"
        /\ uniq.ctx[Root] = "saved"

\* User code is executing: the root or the body of a coroutine, outside any
\* call into the library.
UserCodeRuns == RootRuns \/ \E x \in Coros : CoRuns(x)

\* C36: whenever user code is executing, the coroutine on top of the
\* coroutine_stack is Running and every other coroutine on it is Normal; in
\* particular the coroutine that called resume is Running again once resume
\* has returned.
C36_TopRunningRestNormal ==
    UserCodeRuns =>
        /\ uniq.state[current(uniq)] = "Running"
        /\ \A i \in 1..(Len(uniq.coroutine_stack) - 1) :
              uniq.state[uniq.coroutine_stack[i]] = "Normal"

\* The body of test_coroutine_child_panic: it joins a child that panics and
\* drops the result.
SwallowBody == 10

\* C35: env.running_state, the slot for a panic payload, is empty whenever
\* user code is executing; a payload recorded by a panicking coroutine is
\* taken by the resume call that was running that coroutine, so no resume
\* of another coroutine reports it, and the join of a parent that swallowed
\* the panic of its child returns Ok.
C35_PayloadSlotEmptyInUserCode ==
    /\ [](UserCodeRuns => uniq.running_state = None)
    /\ []((uniq.ev.op = "ret" /\ uniq.ev.res # Ok) =>
            /\ uniq.ev.switched
            /\ uniq.ev.res = Err(uniq.ev.res[2])
            /\ uniq.ev.res[2].by = uniq.ev.target
            /\ uniq.payload[uniq.ev.target] = Some(uniq.ev.res[2]))
    /\ [][uniq'.running_state # uniq.running_state =>
            IF uniq.running_state = None
            THEN /\ uniq'.running_state[1].by = current(uniq)
                 /\ uniq'.call[current(uniq')].target = current(uniq)
                 /\ uniq'.call[current(uniq')].at = "swap"
            ELSE /\ uniq'.running_state = None
                 /\ uniq'.ev = Ev("ret", current(uniq), uniq.running_state[1].by,
                                  uniq'.ev.fn, uniq'.ev.via, uniq'.ev.pre,
                                  Err(uniq.running_state[1]), TRUE)]_vars
    /\ []((/\ uniq.ev.op = "ret"
           /\ uniq.ev.fn = "join"
           /\ uniq.body[uniq.ev.target] = SwallowBody
           /\ uniq.ev.pre \in {"Suspended", "Blocked"}) =>
            uniq.ev.res = Ok)

\* The root's join of the coroutine of test_coroutine_child_panic has
\* returned Ok: the child has panicked and its parent has finished.
C35_Witness ==
    /\ uniq.ev.op = "ret"
    /\ uniq.ev.fn = "join"
    /\ uniq.ev.ctx = Root
    /\ uniq.ev.res = Ok
    /\ uniq.body[uniq.ev.target] = SwallowBody
    /\ uniq.state[uniq.ev.target] = "Finished"
    /\ \E c \in Coros : uniq.state[c] = "Panicked" /\ uniq.owner[c] = uniq.ev.target
    /\ uniq.running_state = None

(***************************************************************************)
(* Claims about asymmetric.rs, checked under SpecAsym.                     *)
(***************************************************************************)
DroppedWhileSuspended == asym.drop_state \in {"Suspended", "Parked"}

\* C2: when the Handle of a coroutine in state Suspended or Parked (one never
\* resumed included) is dropped, the coroutine is switched into exactly once
\* with the force-unwind signal, no instruction of the body runs after the
\* point where it was suspended, no destructor runs twice, and when the stack
\* is released the unwinding is over: no local is live any more and every
\* local the body created had its destructor run exactly once.
C2_DropForceUnwinds ==
    DroppedWhileSuspended =>
        /\ asym.unwinds = 1
        /\ asym.steps = asym.drop_steps
        /\ \A g \in Guards : asym.drops[g] <= 1
        /\ asym.stack = "released" =>
              /\ asym.unwinding = "no"
              /\ asym.locals = <<>>
              /\ \A g \in asym.created : asym.drops[g] = 1

\* A coroutine parked while it held a guard was dropped, unwound and its
\* stack released.
C2_Witness ==
    /\ asym.drop_state = "Parked"
    /\ asym.created = {1}
    /\ asym.drops[1] = 1
    /\ asym.handle = "dropped"
    /\ asym.stack = "released"

\* The coroutine executes its body on behalf of a Handle::resume.
ABodyExecutes ==
    /\ asym.run = "coro"
    /\ asym.call = "resume"
    /\ asym.pos = "body"

\* C27: a freshly spawned asymmetric coroutine is Suspended and has run none
\* of its body; it is Running exactly while its body executes; after
\* yield_with it is Suspended, after park_with it is Parked, after the body
\* has returned it is Finished and after the body has panicked it is Panicked.
C27_AsymLifecycle ==
    /\ [](asym.pos = "entry" =>
            (asym.state = "Suspended" /\ asym.steps = 0 /\ asym.pc = 1 /\ asym.created = {}))
    /\ [](asym.state = "Running" <=> ABodyExecutes)
    /\ [][(ABodyRuns /\ AInstr.op \in {"yield_with", "yield_data"} /\ asym' # asym)
            => (asym'.state = "Suspended" /\ asym'.run = "caller")]_vars
    /\ [][(ABodyRuns /\ AInstr.op = "park_with" /\ asym' # asym)
            => (asym'.state = "Parked" /\ asym'.run = "caller")]_vars
    /\ [][(ABodyExecutes /\ asym.unwinding = "return" /\ asym.locals = <<>> /\ asym' # asym)
            => (asym'.state = "Finished" /\ asym'.run = "caller")]_vars
    /\ [][(ABodyExecutes /\ asym.unwinding = "panic" /\ asym.locals = <<>> /\ asym' # asym)
            => (asym'.state = "Panicked" /\ asym'.run = "caller")]_vars

\* The coroutine of the test `state` has parked: it yielded, was resumed and
\* called park_with; the caller holds the result of its second resume.
C27_Witness ==
    /\ asym.body = 2
    /\ asym.state = "Parked"
    /\ asym.pc = 3
    /\ asym.run = "caller"
    /\ asym.res = <<"Ok", 0>>

\* C28: Handle::resume on a coroutine whose state is Finished or Panicked
\* fails its assertion, a panic in the caller, before any context switch;
\* the state of the coroutine and everything else about it stay as they are.
C28_ResumeFinishedAsserts ==
    /\ [][(/\ CallerRuns
           /\ asym.handle = "live"
           /\ asym.state \in {"Finished", "Panicked"}
           /\ asym'.handle = "live"
           /\ <<asym'.res, asym'.caller_panicked, asym'.run, asym'.state>>
                  # <<asym.res, asym.caller_panicked, asym.run, asym.state>>)
          => asym' = [asym EXCEPT !.caller_panicked = TRUE, !.res = None]]_vars
    /\ [](asym.caller_panicked => asym.state \in {"Finished", "Panicked"})

\* The caller has resumed a coroutine whose body had panicked; the
\* coroutine is still Panicked and its stack is still there.
C28_Witness ==
    /\ asym.caller_panicked
    /\ asym.state = "Panicked"
    /\ asym.handle = "live"
    /\ asym.stack = "mapped"

\* The body only creates guards, calls yield_with and returns a value.
YieldsAndReturns(b) ==
    \A i \in 1..Len(ABodies[b]) : ABodies[b][i].op \in {"guard", "yield_with", "ret"}

\* What Handle::resume returns for the first n instructions of body b.
RECURSIVE Handed(_, _)
Handed(b, n) ==
    IF n = 0 THEN <<>>
    ELSE IF ABodies[b][n].op \in {"yield_with", "ret"}
         THEN Append(Handed(b, n - 1), <<"Ok", ABodies[b][n].arg>>)
         ELSE Handed(b, n - 1)

\* C29: iterating a Handle whose body yields v1..vn and then returns r gives
\* Ok(v1), ..., Ok(vn), Ok(r) in that order and then None on every later
\* call; the value passed to resume reaches the body unchanged, as its start
\* argument on the first resume and as the result of the pending yield on
\* the later ones.
C29_IterationAndData ==
    /\ []((YieldsAndReturns(asym.body) /\ asym.handle = "live" /\ asym.run = "caller") =>
            /\ asym.pos \in {"entry", "body"} => asym.out = Handed(asym.body, asym.pc - 1)
            /\ asym.state = "Finished" =>
                  asym.out = Handed(asym.body, Len(ABodies[asym.body])))
    /\ []((asym.item = "Some" /\ asym.run = "caller" /\ ~asym.caller_panicked) =>
            (asym.sent = 0 /\ asym.res = Last(asym.out)))
    /\ [](asym.item = "None" => asym.state \in {"Finished", "Panicked"})
    /\ [][(/\ CallerRuns
           /\ asym.handle = "live"
           /\ asym.state \in {"Finished", "Panicked"}
           /\ asym'.item # asym.item)
          => asym' = [asym EXCEPT !.item = "None"]]_vars
    /\ [](ABodyExecutes => asym.received = asym.sent)

\* The generator has been iterated to its end: it yielded 0 and 1, returned
\* 1, and the next call of next gave None.
C29_Witness ==
    /\ asym.body = 5
    /\ asym.out = << <<"Ok", 0>>, <<"Ok", 1>>, <<"Ok", 1>> >>
    /\ asym.item = "None"
    /\ asym.state = "Finished"
    /\ asym.handle = "live"

\* The body of yield_data runs after its second resume, which passed a value
\* other than the first one.
C29_WitnessData ==
    /\ asym.body = 4
    /\ ABodyExecutes
    /\ asym.pc = 2
    /\ asym.received = 1
    /\ asym.out = << <<"Ok", 0>> >>

\* C30: when the body panics with payload p, the resume that ran it returns
\* Err(Error::Panicking(p)) with that payload and the state becomes Panicked;
\* the locals of the body are destroyed exactly once, by that panic, and the
\* drop of the Handle afterwards unwinds nothing.
C30_PanicReportedOnce ==
    /\ [][(ABodyExecutes /\ asym.unwinding = "panic" /\ asym.locals = <<>> /\ asym' # asym)
            => /\ asym'.res = Err([kind |-> "Panicking", payload |-> AInstr.arg])
               /\ AInstr.op = "panic"
               /\ asym'.state = "Panicked"
               /\ asym'.run = "caller"]_vars
    /\ []((asym.state = "Panicked" \/ asym.drop_state = "Panicked") =>
            /\ asym.unwinds = 0
            /\ asym.unwinding = "no"
            /\ asym.locals = <<>>
            /\ \A g \in asym.created : asym.drops[g] = 1
            /\ asym.steps = asym.pc)

\* The coroutine of the test `unwinding` panicked holding a guard, and its
\* Handle has been dropped.
C30_Witness ==
    /\ asym.body = 3
    /\ asym.drop_state = "Panicked"
    /\ asym.handle = "dropped"
    /\ asym.stack = "released"
    /\ asym.res = Err([kind |-> "Panicking", payload |-> "111"])
    /\ asym.created = {1}
    /\ asym.drops[1] = 1

(***************************************************************************)
(* Claims about coroutine_clonable.rs, checked under SpecClonable.         *)
(***************************************************************************)
\* C6: with threads calling resume concurrently on clones of one Handle, at
\* most one thread executes inside the coroutine between a switch-in and the
\* coroutine's yield; a resume that found the state Running returned Ok
\* without switching; and whenever the state is one resume accepts
\* (Suspended, Blocked) no thread is inside the coroutine and its context
\* has been saved by its yield, so that no switch-in loads a context that
\* was not saved.
C6_ConcurrentResumeExclusive ==
    /\ Cardinality(ClInside(clon)) <= 1
    /\ \A t \in Threads :
          clon.found[t] = "Running" =>
              /\ clon.at[t] = "idle"
              /\ ~clon.switched[t]
              /\ clon.res[t] = Some(Ok)
    /\ clon.state \in {"Suspended", "Blocked"} =>
          /\ ClInside(clon) = {}
          /\ clon.saved_context
    /\ ~clon.stale

\* Thread 2 runs the coroutine after it yielded on thread 1, and thread 1's
\* resume meanwhile found it Running.
C6_Witness ==
    /\ clon.at[2] = "in_coro"
    /\ clon.ran_on = {1, 2}
    /\ clon.pc > 1
    /\ clon.found[1] = "Running"
    /\ clon.res[1] = Some(Ok)

\* C23: Handle::resume on a coroutine whose state is Normal (it waits for a
\* child it resumed) returns Err(Error::Waiting) without a context switch;
\* the call changes neither the state of the coroutine or of its child nor
\* any thread's stack of active coroutines.
C23_ResumeNormalIsWaiting ==
    /\ [](\A t \in Threads :
            clon.found[t] = "Normal" =>
                /\ clon.at[t] = "idle"
                /\ ~clon.switched[t]
                /\ clon.res[t] = Some(Err("Waiting")))
    /\ [][\A t \in Threads :
            (/\ clon.at[t] = "idle"
             /\ clon.state = "Normal"
             /\ <<clon'.found[t], clon'.switched[t], clon'.res[t], clon'.at[t]>>
                    # <<clon.found[t], clon.switched[t], clon.res[t], clon.at[t]>>)
            => clon' = [clon EXCEPT !.found[t] = "Normal",
                                    !.switched[t] = FALSE,
                                    !.res[t] = Some(Err("Waiting"))]]_vars

\* While the coroutine waits on thread 1 for the child it resumed, the
\* resume of thread 2 has returned Err(Waiting).
C23_Witness ==
    /\ clon.state = "Normal"
    /\ clon.at[1] = "in_child"
    /\ clon.child = "Running"
    /\ clon.at[2] = "idle"
    /\ clon.found[2] = "Normal"
    /\ clon.res[2] = Some(Err("Waiting"))
    /\ clon.env[2].coroutine_stack = <<"root">>

\* C24: once the body of the coroutine has returned normally, every further
\* Handle::resume returns Ok, as test_coroutine_resume_after_finished asserts
\* for a coroutine with an empty body.
C24_ResumeAfterFinishedIsOk ==
    \A t \in Threads :
        (clon.found[t] = "Finished" /\ clon.at[t] = "idle") => clon.res[t] = Some(Ok)

(***************************************************************************)
(* Claims about the scheduler (checked under SpecSched).                   *)
(***************************************************************************)
\* The places of the run queues (private FIFOs and stealable deques) that
\* hold handle c.
QueuedAt(s, c) ==
    UNION {{<<t, "private", i>> : i \in {j \in DOMAIN s.th[t].private_work :
                                             s.th[t].private_work[j] = c}}
              \cup {<<t, "deque", i>> : i \in {j \in DOMAIN s.th[t].workqueue :
                                                 s.th[t].workqueue[j] = c}} : t \in Threads}

\* Handle c is held by a scheduler for a later resume: in a run queue, among
\* the handles a thread has just stolen, or under a token that is registered
\* with an event loop.
HeldAnywhere(s, c) ==
    \/ QueuedAt(s, c) # {}
    \/ \E t \in Threads : c \in Range(s.th[t].stolen_works)
    \/ \E t \in Threads : \E k \in s.th[t].registered : s.th[t].slabs[k] = c

\* The handles thread t holds for a later resume, in order: its private
\* FIFO, its deque and the handles it has stolen in this round.
WaitingOn(s, t) == s.th[t].private_work \o s.th[t].workqueue \o s.th[t].stolen_works

RECURSIVE WaitingUpTo(_, _)
\* The same for the threads 1..n, one after the other.
WaitingUpTo(s, n) == IF n = 0 THEN <<>> ELSE WaitingUpTo(s, n - 1) \o WaitingOn(s, n)

\* The handles the threads are resuming right now.
BeingResumed(s) == {s.th[t].work : t \in Threads} \ {0}

\* The handles waiting under a token that is registered with an event loop,
\* as pairs of thread and token.
Registered(s) == {x \in Threads \X Tokens : x[2] \in s.th[x[1]].registered}

\* Thread t leaves resume_coroutine after the resume of its handle returned.
ResumeReturned(t) == sch.th[t].at = "after" /\ sch'.th[t].at # "after"

\* C15: after resume_coroutine resumed a handle, a Suspended handle is
\* enqueued again exactly once (through ready, on the resuming thread), a
\* Blocked one is put in no run queue, a Finished or Panicked one is dropped
\* and is never enqueued or resumed again, Running and Normal never occur
\* when the resume returns, and a handle that is neither Suspended nor
\* Blocked on entry is not resumed.
C15_ResumeCoroutineRouting ==
    /\ [](\A t \in Threads :
            /\ sch.th[t].at = "after" => sch.co[sch.th[t].work].state \notin {"Running", "Normal"}
            /\ sch.th[t].at # "crashed")
    /\ [](/\ \A c \in Range(WaitingUpTo(sch, MaxThreads)) :
                 sch.co[c].state \notin {"Finished", "Panicked"}
          /\ \A x \in Registered(sch) :
                 sch.co[sch.th[x[1]].slabs[x[2]]].state \notin {"Finished", "Panicked"})
    /\ [](sch.ev.op = "resume" => sch.ev.pre \in {"Suspended", "Blocked"})
    /\ [][/\ \A t \in Threads :
               ResumeReturned(t) =>
                   LET w == sch.th[t].work
                       st == sch.co[w].state
                   IN  /\ QueuedAt(sch, w) = {}
                       /\ st = "Suspended" =>
                             /\ Cardinality(QueuedAt(sch', w)) = 1
                             /\ \A x \in QueuedAt(sch', w) : x[1] = t
                             /\ sch'.ev.op = "resumed" /\ sch'.ev.q \in {"private", "deque"}
                       /\ st # "Suspended" => QueuedAt(sch', w) = {}
          /\ \A c \in SCoros :
               sch.co[c].state \in {"Finished", "Panicked"} =>
                   /\ sch'.co[c].state = sch.co[c].state
                   /\ ~(sch'.ev.op = "resume" /\ sch'.ev.c = c /\ sch'.ev # sch.ev)]_vars

\* A handle that yielded was put back in the private FIFO of the thread that
\* resumed it, after another one had finished and was dropped.
C15_Witness ==
    /\ sch.ev.op = "resumed"
    /\ sch.ev.post = "Suspended"
    /\ Cardinality(QueuedAt(sch, sch.ev.c)) = 1
    /\ \E c \in SCoros : sch.co[c].state = "Finished" /\ ~HeldAnywhere(sch, c)


\* C16: ready appends the handle to the private FIFO of its thread when that
\* FIFO holds fewer than MAX_PRIVATE_WORK_NUM (10) handles and pushes it on
\* the thread's stealable deque otherwise; the private FIFO never holds more
\* than 10 handles.
C16_ReadyRouting ==
    /\ [](\A t \in Threads : Len(sch.th[t].private_work) <= MAX_PRIVATE_WORK_NUM)
    /\ [][\A t \in Threads :
            LET p == sch.th[t].private_work
                p2 == sch'.th[t].private_work
                q == sch.th[t].workqueue
                q2 == sch'.th[t].workqueue
            IN  IF sch.phase = "setup" /\ sch'.phase = "filled"
                THEN \* MAX_PRIVATE_WORK_NUM calls of ready in a row on the main thread
                     /\ p2 = IF t = MainThread THEN [i \in 1..MAX_PRIVATE_WORK_NUM |-> i] ELSE p
                     /\ q2 = q
                ELSE /\ (p2 # p /\ ~(p # <<>> /\ p2 = Tail(p))) =>
                            /\ Len(p) < MAX_PRIVATE_WORK_NUM
                            /\ \E c \in SCoros : p2 = Append(p, c)
                            /\ q2 = q
                     /\ (q2 # q /\ ~(q # <<>> /\ q2 = Tail(q))) =>
                            /\ Len(p) >= MAX_PRIVATE_WORK_NUM
                            /\ \E c \in SCoros : q2 = Append(q, c)
                            /\ p2 = p]_vars

\* The private FIFO of the main thread is full and ready has pushed the next
\* handle on the deque.
C16_Witness ==
    /\ Len(sch.th[MainThread].private_work) = MAX_PRIVATE_WORK_NUM
    /\ sch.ev.op = "ready"
    /\ sch.ev.q = "deque"
    /\ sch.th[MainThread].workqueue = <<sch.ev.c>>


\* Thread t runs the event loop once (schedule, line 252).
PollStep(t) == sch.th[t].at = "poll" /\ sch'.th[t].at # "poll"

\* The tokens of thread t whose entry the step takes out of the Slab.
TokensTaken(t) == {k \in Tokens : sch.th[t].slabs[k] # 0 /\ sch'.th[t].slabs[k] = 0}

\* C17: when the registration of wait_event succeeds the calling coroutine
\* yields Blocked and is in no run queue; when readiness fires for its token
\* the token leaves the token table, the source is deregistered and the
\* handle is given to ready exactly once, on the thread that registered it,
\* and wait_event then returns Ok(()); a readiness event for a token with no
\* waiting coroutine changes nothing (it is only logged).
C17_WaitEvent ==
    /\ [](LET waiting == WaitingUpTo(sch, MaxThreads)
          IN  /\ Cardinality(Range(waiting)) = Len(waiting)
              /\ \A x \in Registered(sch) :
                    LET c == sch.th[x[1]].slabs[x[2]]
                    IN  /\ c # 0
                        /\ sch.co[c].state = "Blocked"
                        /\ sch.co[c].pos = "in_wait"
                        /\ c \notin Range(waiting)
                        /\ \A y \in Registered(sch) :
                              sch.th[y[1]].slabs[y[2]] = c => y = x)
    /\ [][/\ \A t \in Threads :
               \* wait_event, registration succeeded
               (sch'.ev # sch.ev /\ sch'.ev.op = "wait_event" /\ sch'.ev.t = t
                    /\ sch'.ev.post = "Blocked") =>
                   LET c == sch'.ev.c
                   IN  /\ sch.co[c].state = "Running" /\ sch.th[t].current_running = c
                       /\ sch'.co[c].state = "Blocked"
                       /\ QueuedAt(sch', c) = {}
                       /\ \E k \in sch'.th[t].registered \ sch.th[t].registered :
                             sch'.th[t].slabs[k] = c /\ sch.th[t].slabs[k] = 0
                       /\ sch'.th[t].at = "after"
          /\ \A t \in Threads :
               \* the event loop calls the handler, or finds nothing ready
               PollStep(t) =>
                   /\ Cardinality(TokensTaken(t)) <= 1
                   /\ \A k \in TokensTaken(t) :
                         LET c == sch.th[t].slabs[k]
                         IN  /\ k \in sch.th[t].registered
                             /\ sch'.th[t].registered = sch.th[t].registered \ {k}
                             /\ QueuedAt(sch, c) = {}
                             /\ Cardinality(QueuedAt(sch', c)) = 1
                             /\ \A x \in QueuedAt(sch', c) : x[1] = t
                             /\ sch'.co = sch.co
                   /\ TokensTaken(t) = {} =>
                         sch' = [sch EXCEPT !.th[t].at = sch'.th[t].at, !.ev = sch'.ev]
          /\ \A c \in SCoros :
               \* wait_event goes on after Coroutine::block()
               (sch.co[c].pos = "in_wait" /\ sch'.co[c].pos # "in_wait") =>
                   /\ sch.co[c].state = "Blocked"
                   /\ ~HeldAnywhere(sch', c)
                   /\ sch'.co[c].state = "Running"
                   /\ sch'.co[c].io = Some("Ok")]_vars

\* A coroutine waited, was made ready by the handler and resumed; its
\* wait_event has returned Ok(()) and its token is free again.
C17_Witness ==
    \E c \in SCoros :
        /\ sch.co[c].io = Some("Ok")
        /\ sch.co[c].state = "Running"
        /\ sch.ev.op = "resume" /\ sch.ev.c = c /\ sch.ev.pre = "Blocked"
        /\ \A t \in Threads : \A k \in Tokens : sch.th[t].slabs[k] # c

\* The handler was called for a token with no waiting coroutine while
\* another coroutine waits.
C17_WitnessStale ==
    /\ sch.ev.op = "event"
    /\ sch.ev.c = 0
    /\ \E t \in Threads : \E k \in sch.th[t].registered : sch.th[t].slabs[k] # 0


\* The coroutine running on thread t has just got an error from wait_event.
WaitEventFailed(t) ==
    /\ sch'.ev # sch.ev
    /\ sch'.ev.op = "wait_event"
    /\ sch'.ev.q = "error"
    /\ sch'.ev.t = t

\* C18: when the registration with the event loop fails inside wait_event,
\* the error is returned to the calling coroutine, the coroutine does not
\* block, and the scheduler is as it was before the call: the token table,
\* the registrations and the run queues are unchanged.
C18_RegistrationFailureLeavesNoTrace ==
    [][\A t \in Threads :
         WaitEventFailed(t) =>
             LET c == sch'.ev.c
             IN  /\ sch'.co[c].io = Some("Err")
                 /\ sch'.co[c].state = "Running"
                 /\ sch'.th[t].current_running = c
                 /\ sch'.th[t].at = "coro"
                 /\ sch'.th[t].registered = sch.th[t].registered
                 /\ sch'.th[t].private_work = sch.th[t].private_work
                 /\ sch'.th[t].workqueue = sch.th[t].workqueue
                 /\ sch'.th[t].slabs = sch.th[t].slabs]_vars


\* Where a scheduler thread holds handle c in order to resume it: the places
\* of the run queues, of the handles a thread has stolen in this round, and
\* the resume_coroutine calls under way.
Holders(s, c) ==
    QueuedAt(s, c)
        \cup UNION {{<<t, "stolen", i>> : i \in {j \in DOMAIN s.th[t].stolen_works :
                                                    s.th[t].stolen_works[j] = c}} : t \in Threads}
        \cup {<<t, "resume", 0>> : t \in {u \in Threads : s.th[u].work = c}}

\* Thread t steals from one of its neighbours (schedule, lines 295-302).
NeighborStealStep(t) == sch.th[t].at = "steal" /\ sch'.th[t].idx = sch.th[t].idx + 1

\* C19: with several scheduler threads, in every interleaving, no coroutine
\* in state Running or Normal is in a private FIFO or a stealable deque,
\* each stolen handle is obtained by exactly one thread, and no coroutine is
\* being resumed by two threads at the same time.
C19_OwnershipDiscipline ==
    /\ [](LET waiting == WaitingUpTo(sch, MaxThreads)
          IN  /\ \A c \in Range(waiting) : sch.co[c].state \notin {"Running", "Normal"}
              \* a handle is held once, by one thread
              /\ Cardinality(Range(waiting)) = Len(waiting)
              /\ Range(waiting) \cap BeingResumed(sch) = {}
              /\ \A t, u \in Threads :
                    (sch.th[t].work # 0 /\ sch.th[t].work = sch.th[u].work) => t = u
              \* a coroutine runs on the thread that resumed it, and only there
              /\ \A t \in Threads :
                    sch.th[t].at = "coro" =>
                        /\ sch.th[t].current_running = sch.th[t].work
                        /\ sch.co[sch.th[t].work].state = "Running"
                        /\ sch.co[sch.th[t].work].on = t
                        /\ sch.th[t].root_state = "Normal"
              /\ \A c \in SCoros :
                    sch.co[c].state = "Running" =>
                        /\ sch.co[c].on \in Threads
                        /\ sch.th[sch.co[c].on].work = c)
    /\ [][\A t \in Threads :
            NeighborStealStep(t) =>
                LET n == sch.th[t].neighbors[sch.th[t].idx]
                IN  /\ n # t
                    /\ \A u \in Threads \ {t} :
                          sch'.th[u].stolen_works = sch.th[u].stolen_works
                    /\ IF sch.th[n].workqueue = <<>>
                       THEN sch'.th[t].stolen_works = sch.th[t].stolen_works
                       ELSE LET h == Head(sch.th[n].workqueue)
                            IN  /\ sch'.th[t].stolen_works = Append(sch.th[t].stolen_works, h)
                                /\ sch'.th[n].workqueue = Tail(sch.th[n].workqueue)
                                /\ Holders(sch', h) = {<<t, "stolen", Len(sch'.th[t].stolen_works)>>}
                                /\ sch.co[h].state \in {"Suspended", "Blocked"}]_vars

\* A worker thread runs a coroutine it has stolen from the main thread while
\* the main thread runs another one.
C19_Witness ==
    \E t \in Threads \ {MainThread} :
        /\ sch.th[t].at = "coro"
        /\ sch.th[t].back = "stolen"
        /\ sch.th[MainThread].at = "coro"
        /\ sch.th[MainThread].current_running # sch.th[t].current_running


\* The coroutine that Scheduler::run spawned has ended.
MainEnded(s) == \E c \in SCoros : s.co[c].main /\ s.co[c].state \in {"Finished", "Panicked"}

\* Thread t has left the loop of schedule.
LoopExited(s, t) == s.th[t].at \in {"exit", "done"}

\* C20: once the coroutine started by Scheduler::run has ended, by returning
\* or by panicking, Shutdown has been sent to every registered scheduler and
\* every scheduler loop eventually exits; a scheduler resumes no coroutine
\* after it has observed Shutdown.
C20_ShutdownReachesEveryLoop ==
    /\ [](MainEnded(sch) =>
            /\ Range(sch.registry) = Threads
            /\ \A t \in Threads :
                  sch.th[t].saw_shutdown \/ Shutdown \in Range(sch.th[t].commchannel))
    /\ [](\A t \in Threads : sch.th[t].saw_shutdown => LoopExited(sch, t))
    /\ [][\A t \in Threads :
            sch.th[t].saw_shutdown =>
                ~(sch'.ev # sch.ev /\ sch'.ev.op = "resume" /\ sch'.ev.t = t)]_vars
    /\ (MainEnded(sch) ~> \A t \in Threads : LoopExited(sch, t))

\* C20 without its liveness part: Shutdown is sent to every registered
\* scheduler when the coroutine of run ends, and a scheduler that has
\* observed it has left its loop and resumes nothing.
C20_ShutdownSentAndObeyed ==
    /\ [](MainEnded(sch) =>
            /\ Range(sch.registry) = Threads
            /\ \A t \in Threads :
                  sch.th[t].saw_shutdown \/ Shutdown \in Range(sch.th[t].commchannel))
    /\ [](\A t \in Threads : sch.th[t].saw_shutdown => LoopExited(sch, t))
    /\ [][\A t \in Threads :
            sch.th[t].saw_shutdown =>
                ~(sch'.ev # sch.ev /\ sch'.ev.op = "resume" /\ sch'.ev.t = t)]_vars


\* A handle is put on a run queue of some thread: a coroutine becomes ready.
BecomesReady ==
    \E t \in Threads :
        \/ Len(sch'.th[t].private_work) > Len(sch.th[t].private_work)
        \/ Len(sch'.th[t].workqueue) > Len(sch.th[t].workqueue)

\* C21: with more than one scheduler thread and coroutines becoming ready
\* again and again, every scheduler thread eventually resumes at least one
\* coroutine.
C21_NoThreadStarves ==
    ([]<><<BecomesReady>>_vars) => \A t \in Threads : <>(sch.th[t].at = "coro")

\* C22: in one iteration of the loop of schedule at most one coroutine taken
\* from the private FIFO is resumed: a handle popped from the FIFO is resumed
\* only when no coroutine was resumed since the control channel was last read.
C22_OneResumePerIteration ==
    [][\A t \in Threads :
          (sch.th[t].at = "private" /\ sch'.th[t].at = "coro") => sch.th[t].need_steal]_vars

(***************************************************************************)
(* Claims about coroutine.rs (checked under SpecRc).                       *)
(***************************************************************************)
\* C34: Handle::resume never switches into a coroutine whose state is
\* Normal, and the parent link of a coroutine that waits for a child (state
\* Normal) is never overwritten.
C34_ResumeRefusesNormal ==
    /\ [](rc.ev.op = "switch" => rc.ev.pre # "Normal")
    /\ [][\A c \in RcAll : rc.co[c].state = "Normal" /\ rc'.co[c].state # "Dropped"
                            => rc'.co[c].parent = rc.co[c].parent]_vars

\* C32: when the last Handle of a coroutine that stopped in the middle of
\* its body is dropped, the destructors of the locals of the body have run
\* by the time its Stack is given to the pool: no coroutine is released with
\* live locals.
C32_DropUnwindsBeforeGivingStack ==
    [][\A c \in RcCoros :
          rc.co[c].alive /\ rc'.co[c].state = "Dropped" => rc.co[c].locals = 0]_vars

\* The coroutines whose current_stack_segment is the stack with id k.
RcOwners(s, k) == {c \in RcCoros : s.co[c].segment # None /\ s.co[c].segment[1].id = k}

\* The places of the stack with id k in the pools: <<thread, index>>.
RcCached(s, k) ==
    {p \in Threads \X (1..MaxCoros) :
        p[2] <= Len(s.env[p[1]].stack_pool) /\ s.env[p[1]].stack_pool[p[2]].id = k}

\* C37: every allocated Stack is in exactly one place: the segment of one
\* live coroutine or one slot of one thread's pool.  So no two live
\* coroutines execute on the same stack and no cached stack is still owned.
C37_StackInOnePlace ==
    /\ \A k \in 1..(rc.next_stack - 1) :
          Cardinality(RcOwners(rc, k)) + Cardinality(RcCached(rc, k)) = 1
    /\ \A c \in RcCoros : rc.co[c].alive <=> rc.co[c].segment # None
    /\ \A t \in Threads : Len(rc.env[t].stack_pool) <= MaxCoros

\* C37 witness: a coroutine was dropped, its stack went to the pool, and a
\* coroutine spawned later took that stack from the pool and runs on it.
C37_Witness ==
    \E c, d \in RcCoros :
        /\ rc.co[c].state = "Dropped"
        /\ rc.co[d].alive
        /\ rc.co[d].segment[1].id = 1
        /\ rc.co[d].state = "Suspended" /\ rc.co[d].pos = "yielded"
        /\ rc.next_stack = 2
        /\ \A t \in Threads : rc.env[t].stack_pool = <<>>

(***************************************************************************)
(* More claims about the scheduler (checked under SpecSched).              *)
(***************************************************************************)
\* How often the pair of thread u is in the neighbor list of thread t.
NeighborCount(s, t, u) ==
    Cardinality({i \in DOMAIN s.th[t].neighbors : s.th[t].neighbors[i] = u})

\* How many NewNeighbor messages with the pair of u wait in the channel of t.
PendingNeighbor(s, t, u) ==
    Cardinality({i \in DOMAIN s.th[t].commchannel : s.th[t].commchannel[i] = NewNeighbor(u)})

\* The place of thread t in the registry of schedulers(), 0 if it is not there.
RegistryIndex(s, t) ==
    IF t \in Range(s.registry)
    THEN CHOOSE i \in DOMAIN s.registry : s.registry[i] = t
    ELSE 0

\* C39: for any two schedulers, the (channel, stealer) pair of each is in
\* the neighbor list of the other exactly once: the later-created one has
\* the pair of the earlier one from its construction on; the earlier one has
\* the pair of the later one in a NewNeighbor message of its channel until it
\* processes the message, and in its list from then on.  No neighbor list
\* contains the pair of its own scheduler.
C39_NeighborsExactlyOnce ==
    \A t, u \in Threads :
        /\ sch.th[t].created <=> RegistryIndex(sch, t) # 0
        /\ NeighborCount(sch, t, t) = 0 /\ PendingNeighbor(sch, t, t) = 0
        /\ ~(sch.th[t].created /\ sch.th[u].created)
              => NeighborCount(sch, t, u) = 0 /\ PendingNeighbor(sch, t, u) = 0
        /\ sch.th[t].created /\ sch.th[u].created /\ t # u
              => /\ NeighborCount(sch, t, u) + PendingNeighbor(sch, t, u) = 1
                 /\ RegistryIndex(sch, u) < RegistryIndex(sch, t)
                       => NeighborCount(sch, t, u) = 1
                 /\ sch.th[t].saw_shutdown => NeighborCount(sch, t, u) = 1

\* C39 witness: two schedulers have each other in their lists, the earlier
\* one through a NewNeighbor message it has processed.
C39_Witness ==
    \E t, u \in Threads :
        /\ t # u
        /\ 0 < RegistryIndex(sch, t) /\ RegistryIndex(sch, t) < RegistryIndex(sch, u)
        /\ NeighborCount(sch, t, u) = 1
        /\ NeighborCount(sch, u, t) = 1
        /\ sch.th[t].commchannel = <<>>

\* Thread t leaves the loops over its private FIFO and its own deque having
\* found both empty and resumed nothing in this round.
FoundNothingOwn(t) ==
    /\ sch.th[t].at = "private"
    /\ sch.th[t].need_steal
    /\ sch.th[t].private_work = <<>>
    /\ sch.th[t].workqueue = <<>>
    /\ sch'.th[t].at # "private"

\* Thread t starts the round over its neighbours.
StartsStealing(t) ==
    /\ sch.th[t].at = "private"
    /\ sch'.th[t].at \in {"steal", "stolen"}
    /\ sch'.th[t].idx = 1
    /\ sch'.th[t].stolen_works = <<>>
    /\ ~sch'.th[t].has_stolen
    /\ (sch'.th[t].at = "stolen") <=> (sch.th[t].neighbors = <<>>)

\* The round over the neighbours and what follows it: one steal from each
\* entry of the neighbor list in turn, every stolen handle kept in
\* stolen_works and handed to resume_coroutine, has_stolen set by that, and
\* the sleep only with nothing stolen.
StealRound(t) ==
    /\ NeighborStealStep(t) =>
          LET i == sch.th[t].idx
              n == sch.th[t].neighbors[i]
          IN  /\ i \in DOMAIN sch.th[t].neighbors
              /\ n # t
              /\ ~sch.th[t].has_stolen
              /\ sch'.th[t].at = IF i = Len(sch.th[t].neighbors) THEN "stolen" ELSE "steal"
              /\ IF sch.th[n].workqueue = <<>>
                 THEN sch'.th[t].stolen_works = sch.th[t].stolen_works
                 ELSE /\ sch'.th[t].stolen_works
                            = Append(sch.th[t].stolen_works, Head(sch.th[n].workqueue))
                      /\ sch'.th[n].workqueue = Tail(sch.th[n].workqueue)
    /\ sch.th[t].at = "steal" /\ ~NeighborStealStep(t) => sch'.th[t].idx = sch.th[t].idx
    /\ sch.th[t].at = "stolen"
          /\ (sch'.th[t].at # "stolen" \/ sch'.th[t].stolen_works # sch.th[t].stolen_works) =>
          IF sch.th[t].stolen_works # <<>>
          THEN /\ sch'.ev.op \in {"resume", "not_resumed"}
               /\ sch'.ev.t = t
               /\ sch'.ev.c = Head(sch.th[t].stolen_works)
               /\ sch'.th[t].stolen_works = Tail(sch.th[t].stolen_works)
               /\ (sch'.th[t].has_stolen \/ sch'.th[t].at = "recv")
          ELSE \* thread::sleep_ms(100)
               /\ ~sch.th[t].has_stolen
               /\ sch'.th[t].at = "recv"
    /\ sch.th[t].at \notin {"private", "steal", "stolen"}
          => \/ sch'.th[t].stolen_works = sch.th[t].stolen_works
             \/ (sch'.th[t].at = "recv" /\ sch'.th[t].stolen_works = <<>>)

\* C33 as stated: whenever a round of the loop finds the private FIFO and
\* the thread's own deque empty, the scheduler in that round steals once from
\* the stealer of each neighbour, resumes every handle it stole, and sleeps
\* only if nothing was stolen.
C33_AsStated ==
    [][\A t \in Threads :
          /\ FoundNothingOwn(t) => StartsStealing(t)
          /\ StealRound(t)]_vars

\* C33 amended: the same, for the rounds in which no token of the thread's
\* Slab is in use; with a token in use the round ends without a steal from
\* the neighbours and without the sleep.
C33_StealsWhenIdleWithoutTokens ==
    [][\A t \in Threads :
          /\ FoundNothingOwn(t) =>
                IF \A k \in Tokens : sch.th[t].slabs[k] = 0
                THEN StartsStealing(t)
                ELSE (sch'.th[t].at = "recv" /\ sch'.th[t].stolen_works = <<>>)
          /\ sch.th[t].at # "steal" /\ sch'.th[t].at = "steal" => FoundNothingOwn(t)
          /\ StealRound(t)]_vars

\* C33 witness: a thread has stolen a handle from a neighbour and is resuming
\* it.
C33_Witness ==
    \E t \in Threads :
        /\ sch.th[t].at = "coro"
        /\ sch.th[t].back = "stolen"
        /\ sch.th[t].has_stolen
        /\ sch.co[sch.th[t].work].state = "Running"

\* The tokens of the Slabs under which handle c is stored, as pairs of thread
\* and token.
InTokenTable(s, c) == {x \in Threads \X Tokens : s.th[x[1]].slabs[x[2]] = c}

\* C38: in every interleaving of the scheduler threads, a coroutine is at
\* most once in all private FIFOs and deques together, it is in no run queue
\* while a token table holds it, and a coroutine that yielded with Suspended
\* is held in exactly one place (a run queue, or the thread that has taken it
\* to resume it).
C38_QueuedOnceAndNotWaiting ==
    \A c \in SCoros :
        /\ Cardinality(QueuedAt(sch, c)) <= 1
        /\ QueuedAt(sch, c) # {} => InTokenTable(sch, c) = {}
        /\ sch.co[c].state = "Suspended" => Cardinality(Holders(sch, c)) = 1

(***************************************************************************)
(* Claims about sync::Mutex (checked under SpecMutex).                     *)
(***************************************************************************)
\* C40: at any moment at most one LockGuard of the Mutex exists, also after
\* lock() found the Mutex held, put the caller on the wait list, and the
\* caller was resumed (by unlock or by anyone else).
C40_MutualExclusion == Cardinality(mx.guards) <= 1

====
